---------------------------- MODULE Spec2Model ----------------------------
(***************************************************************************)
(* A model of the n8n chatbot streaming bridge:                            *)
(*   - StreamingWebhookHandler.send_streaming_request / process_stream     *)
(*     (src/streaming_webhook.py),                                         *)
(*   - process_chat_message / process_streaming_response / chat_endpoint   *)
(*     (src/chatbot_app.py),                                               *)
(*   - N8nStreamParser (src/stream_parser.py).                             *)
(*                                                                         *)
(* Text is modelled as a sequence of characters, so that ''.join is \o and *)
(* "if content:" is a comparison with the empty sequence.                  *)
(***************************************************************************)
EXTENDS Integers, Sequences, FiniteSets, TLC

\* Longest agent response, in lines, that the bridge specification explores.
MaxLines == 3

\* Most parse_line calls the parser specification explores.
MaxFed == 3

\* queue.Queue() is built without a maxsize: Python's default, 0, means
\* "no upper bound" (queue.Queue.put waits only while 0 < maxsize <= qsize).
QueueMaxsize == 0

(***************************************************************************)
(* Raw lines of the agent's response.  A line is described by what the     *)
(* decoders look at: whether it has leading/trailing white space (pad),    *)
(* what its text is (nothing, text that is not JSON, a JSON value that is  *)
(* not an object, a JSON object) and, for an object, which of the keys     *)
(* type / content / metadata it carries and with what values.              *)
(***************************************************************************)
\* metadata: the keys the code reads.  ts_kind tells whether 'timestamp' is
\* absent, a number (ts) or a string (non-empty).
NoMeta ==
    [is_dict |-> TRUE, has_node |-> FALSE, nodeId |-> "", ts_kind |-> "absent",
     ts |-> 0]

\* A "metadata" value that is not an object: null, a string, a number, a list.
NotDictMeta ==
    [is_dict |-> FALSE, has_node |-> FALSE, nodeId |-> "", ts_kind |-> "absent",
     ts |-> 0]

Meta(node, ts_kind, ts) ==
    [is_dict |-> TRUE, has_node |-> node # "", nodeId |-> node,
     ts_kind |-> ts_kind, ts |-> ts]

RawLine(body, pad, has_type, type, has_content, content, has_meta, meta) ==
    [body |-> body, pad |-> pad,
     has_type |-> has_type, type |-> type,
     has_content |-> has_content, content |-> content,
     has_meta |-> has_meta, meta |-> meta]

BlankLine == RawLine("empty", FALSE, FALSE, "", FALSE, <<>>, FALSE, NoMeta)
SpaceLine == RawLine("empty", TRUE, FALSE, "", FALSE, <<>>, FALSE, NoMeta)
GarbageLine == RawLine("garbage", FALSE, FALSE, "", FALSE, <<>>, FALSE, NoMeta)
NonObjectLine == RawLine("nonobj", FALSE, FALSE, "", FALSE, <<>>, FALSE, NoMeta)
StartLine == RawLine("object", FALSE, TRUE, "start", FALSE, <<>>, TRUE, Meta("n1", "number", 1))
EndLine == RawLine("object", FALSE, TRUE, "end", FALSE, <<>>, TRUE, Meta("n1", "number", 3))
OtherLine == RawLine("object", FALSE, TRUE, "ping", TRUE, <<"b">>, FALSE, NoMeta)
ItemLine(c) == RawLine("object", FALSE, TRUE, "item", TRUE, c, TRUE, Meta("n1", "number", 2))

ItemLineWith(c, pad, has_meta, meta) ==
    RawLine("object", pad, TRUE, "item", TRUE, c, has_meta, meta)
UntypedLine == RawLine("object", FALSE, FALSE, "", TRUE, <<"a">>, FALSE, NoMeta)

\* {"type":"item","content":"b","metadata":null}
NullMetaItemLine == ItemLineWith(<<"b">>, FALSE, TRUE, NotDictMeta)

\* The lines the parser specification passes to parse_line.
ParserLines ==
    {BlankLine, SpaceLine, GarbageLine, NonObjectLine, StartLine, EndLine,
     OtherLine, UntypedLine,
     ItemLine(<<"a">>),
     ItemLineWith(<<"b">>, FALSE, TRUE, Meta("n2", "absent", 0)),
     ItemLineWith(<<"a">>, TRUE, TRUE, Meta("", "string", 0)),
     ItemLineWith(<<>>, FALSE, FALSE, NoMeta)}

\* The lines the bridge specification draws the agent's response from.
BridgeLines ==
    {BlankLine, GarbageLine, NonObjectLine, StartLine, EndLine, OtherLine,
     ItemLine(<<>>), ItemLine(<<"a">>), ItemLine(<<"b">>)}

SeqsUpTo(S, n) == UNION {[1..k -> S] : k \in 0..n}

\* The node id of every line of the sample stream.
SampleNode == "c81832f0-cde4-4fda-8dae-0f7b124923fd"

\* A line of the sample stream: its metadata has the node id and a numeric
\* timestamp, written here as the milliseconds after 1760894373000.
SampleLine(type, has_content, content, ms) ==
    RawLine("object", FALSE, TRUE, type, has_content, content, TRUE,
            Meta(SampleNode, "number", ms))

\* sample_stream of demo_parser (and sample_data of demo_with_sample_data):
\* start, five items, end.  A content is the sequence of its characters,
\* each Hangul syllable written by its romanised name.
SampleStream ==
    <<SampleLine("start", FALSE, <<>>, 809),
      SampleLine("item", TRUE,
                 <<"an", "nyeong", "ha", "se", "yo", "!", " ">>, 897),
      SampleLine("item", TRUE, <<"eop", "mu", "reul", " ", "do">>, 897),
      SampleLine("item", TRUE, <<"wa", "deu">>, 1001),
      SampleLine("item", TRUE, <<"ril", " ", "su", " ">>, 1001),
      SampleLine("item", TRUE, <<"iss", "seup", "ni", "da", ".">>, 1085),
      SampleLine("end", FALSE, <<>>, 1325)>>

(***************************************************************************)
(* Decoding, as the code does it.                                          *)
(***************************************************************************)
\* "if line:" on the line as iter_lines delivers it (not stripped).
LineTruthy(line) == ~(line.body = "empty" /\ ~line.pad)

\* line.strip() followed by "if not line".
StripIsEmpty(line) == line.body = "empty"

\* json.loads(line) succeeds (white space around a JSON value is accepted;
\* white space alone is not a JSON value).
JsonLoadsOk(line) == line.body \in {"object", "nonobj"}

\* The decoded value has a .get method (it is a dict).
IsDict(line) == line.body = "object"

\* data.get('type', 'unknown'), data.get('content', ''), data.get('metadata', {})
GetType(line) == IF line.has_type THEN line.type ELSE "unknown"
GetContent(line) == IF line.has_content THEN line.content ELSE <<>>
GetMetadata(line) == IF line.has_meta THEN line.meta ELSE NoMeta

\* "if content:"
Truthy(content) == content # <<>>

(***************************************************************************)
(* queue.Queue                                                             *)
(***************************************************************************)
QueueFull(q) == QueueMaxsize > 0 /\ Len(q) >= QueueMaxsize

\* A put that adds at the head instead of the tail (a LIFO channel).
QueuePutFront(q, e) == <<e>> \o q

QueuePut(q, e) == Append(q, e)

QueueHead(q) == Head(q)

QueueRest(q) == Tail(q)

\* Entries of chunk_queue and envelopes sent to the client: the "content"
\* field holds the chunk's "content" or the complete entry's "message".
Entry(type, content) == [type |-> type, content |-> content]

VARIABLES
    mode,               \* "ws": a WebSocket chat request; "rest": POST /api/chat
    transport,          \* outcome of session.post: "ok", "status", "timeout", "connerr"
    lines,              \* the lines iter_lines delivers before the body ends
                        \* (or before a read error, which line 73 swallows)
    ws_open,            \* the client's WebSocket is still connected
    sent,               \* envelopes delivered to the client, in order
    pc,                 \* position of the process_chat_message coroutine
    psr_exit,           \* how process_streaming_response was left
    joined,             \* stream_thread.join() has returned
    complete_response,  \* process_streaming_response's local
    chunk_queue,        \* process_streaming_response's queue
    content_parts,      \* process_streaming_response's list (on_chunk appends)
    ps_pc,              \* position of process_stream
    ps_ctx,             \* who runs process_stream: "worker" thread or event "loop"
    idx,                \* index of the next line iter_lines delivers
    ps_parts,           \* process_stream's content_parts
    ps_meta,            \* process_stream's metadata keys set so far
    rest_pc,            \* position of chat_endpoint
    rest_status,        \* ChatResponse.status
    rest_message,       \* ChatResponse.message
    chunks,             \* N8nStreamParser.chunks
    ret,                \* outcome of the last parse_line call
    fed,                \* the lines passed to parse_line so far, in order
    last_read,          \* the last read operation called on the parser since
                        \* the last parse_line call, with what it returned
    environ,            \* os.environ after load_dotenv, per variable name:
                        \* "unset", "empty" (set to '') or "set"
    boot_pc,            \* how far the start of the process has come
    webhook_handler,    \* chatbot_app.webhook_handler: "None" or "created"
    active_connections, \* chatbot_app.active_connections: per session id the
                        \* registered connection, or NoConn for no entry
    conn_state,         \* per connection, where its websocket_endpoint call
                        \* is: "new", "live", "closed" (left through the
                        \* except clause), "crashed" (left by an exception)
    conn_sid,           \* per connection, the session id of its URL
    conn_handled,       \* per connection, the messages it has had processed
    loop_owner,         \* the coroutine the event loop is running: a
                        \* connection's handler, SessionsTask, or NoConn
    sessions_pc,        \* position of a get_active_sessions call
    listed,             \* the keys and the count get_active_sessions read
    requests,           \* per connection, the chat request in flight on it:
                        \* its response lines, the positions of its
                        \* coroutine and of its thread, and their locals
    queues,             \* the queue.Queue objects, by the request that
                        \* created them
    socket_log,         \* per connection, the envelopes sent on its WebSocket
    processed_content,  \* StreamingContentProcessor.processed_content
    processing_callbacks, \* StreamingContentProcessor.processing_callbacks
    proc_ret            \* the last call made on the processor and its outcome

bridge_vars ==
    <<mode, transport, lines, ws_open, sent, pc, psr_exit, joined,
      complete_response, chunk_queue, content_parts, ps_pc, ps_ctx, idx,
      ps_parts, ps_meta, rest_pc, rest_status, rest_message>>

processor_vars == <<processed_content, processing_callbacks, proc_ret>>

parser_vars == <<chunks, ret, fed, last_read, processor_vars>>

startup_vars == <<environ, boot_pc, webhook_handler>>

registry_vars == <<active_connections, conn_state, conn_sid, conn_handled>>

loop_vars == <<loop_owner, sessions_pc, listed>>

multi_vars == <<requests, queues, socket_log>>

app_vars == <<startup_vars, registry_vars, loop_vars, multi_vars>>

vars == <<bridge_vars, parser_vars, app_vars>>

env_vars == <<mode, transport, lines>>
ps_vars == <<ps_pc, ps_ctx, idx, ps_parts, ps_meta>>
rest_vars == <<rest_pc, rest_status, rest_message>>
psr_locals == <<complete_response, chunk_queue, content_parts>>

\* StreamChunk.timestamp: None, or the datetime of a number of milliseconds.
NoTimestamp == [set |-> FALSE, ms |-> 0]

\* The outcome of a parse_line call: None, a StreamChunk, or an exception.
NoChunk ==
    [type |-> "", content |-> <<>>, metadata |-> NoMeta,
     timestamp |-> NoTimestamp]
Returned(kind, chunk) == [kind |-> kind, chunk |-> chunk]

\* None, as an argument or a result.
PyNone == "<None>"

\* A call of a read operation of the parser and its result.
ReadOf(op, arg, result) == [op |-> op, arg |-> arg, result |-> result]
NoRead == ReadOf("none", PyNone, <<>>)

\* N8nStreamParser.__init__
(***************************************************************************)
(* Configuration and start of the process (src/env_config.py,              *)
(* src/run_chatbot.py, chatbot_app.startup_event).                         *)
(***************************************************************************)
EnvNames ==
    {"WEBHOOK_USERNAME", "N8N_USERNAME", "WEBHOOK_PASSWORD", "N8N_PASSWORD",
     "WEBHOOK_URL", "N8N_WEBHOOK_URL"}

\* os.getenv(a) or os.getenv(b): the first when it is truthy, else the
\* second (None for an unset variable, '' for an empty one).
GetenvOr(a, b) == IF environ[a] = "set" THEN environ[a] ELSE environ[b]

\* "not value" is false for a non-empty string only.
ConfigTruthy(value) == value = "set"

WEBHOOK_USERNAME == GetenvOr("WEBHOOK_USERNAME", "N8N_USERNAME")
WEBHOOK_PASSWORD == GetenvOr("WEBHOOK_PASSWORD", "N8N_PASSWORD")
WEBHOOK_URL == GetenvOr("WEBHOOK_URL", "N8N_WEBHOOK_URL")

\* get_auth_credentials asking for the username alone.
GetAuthCredentialsRaisesOnUsername == ~ConfigTruthy(WEBHOOK_USERNAME)

\* get_auth_credentials raises ValueError.
GetAuthCredentialsRaises ==
    ~ConfigTruthy(WEBHOOK_USERNAME) \/ ~ConfigTruthy(WEBHOOK_PASSWORD)

\* get_webhook_url raises ValueError.
GetWebhookUrlRaises == ~ConfigTruthy(WEBHOOK_URL)

\* run_chatbot.main: both getters are called; a ValueError is printed and
\* the process exits with status 1, otherwise uvicorn.run starts the app.
Main ==
    /\ boot_pc = "main"
    /\ boot_pc' = IF GetWebhookUrlRaises \/ GetAuthCredentialsRaises
                  THEN "exited" ELSE "uvicorn"
    /\ UNCHANGED <<environ, webhook_handler, registry_vars, loop_vars, bridge_vars,
                   parser_vars, multi_vars>>

\* chatbot_app.startup_event, run by uvicorn before it accepts requests: an
\* exception of a getter fails the startup and the server exits; otherwise
\* the handler is created and the application serves.
Startup_Event ==
    /\ boot_pc = "uvicorn"
    /\ IF GetWebhookUrlRaises \/ GetAuthCredentialsRaises
       THEN boot_pc' = "failed" /\ UNCHANGED webhook_handler
       ELSE boot_pc' = "serving" /\ webhook_handler' = "created"
    /\ UNCHANGED <<environ, registry_vars, loop_vars, bridge_vars, parser_vars, multi_vars>>

\* The application up and serving, as it is while requests are handled.
AppServing ==
    /\ environ = [n \in EnvNames |-> "set"]
    /\ boot_pc = "serving"
    /\ webhook_handler = "created"

(***************************************************************************)
(* chatbot_app.websocket_endpoint and the registry active_connections.     *)
(***************************************************************************)
MaxConns == 2
MaxHandled == 1

Conns == 1..MaxConns
SessionIds == {"s1", "s2"}
NoConn == 0

\* active_connections[session_id] = websocket
Register(registry, sid, c) == [registry EXCEPT ![sid] = c]

\* if session_id in active_connections: del active_connections[session_id]
Remove(registry, sid) == [registry EXCEPT ![sid] = NoConn]

\* list(active_connections.keys()) of get_active_sessions
GetActiveSessions == {sid \in SessionIds : active_connections[sid] # NoConn}

\* Lines 67-68: the connection is accepted and registered under the
\* session id of its URL, replacing any entry the id had.
WS_Accept(c, sid) ==
    /\ conn_state[c] = "new"
    /\ active_connections' = Register(active_connections, sid, c)
    /\ conn_state' = [conn_state EXCEPT ![c] = "live"]
    /\ conn_sid' = [conn_sid EXCEPT ![c] = sid]
    /\ UNCHANGED <<conn_handled, startup_vars, loop_vars, bridge_vars, parser_vars, multi_vars>>

\* One turn of the loop: a message is received, decoded and processed.
WS_Message(c) ==
    /\ conn_state[c] = "live"
    /\ conn_handled[c] < MaxHandled
    /\ conn_handled' = [conn_handled EXCEPT ![c] = @ + 1]
    /\ UNCHANGED <<active_connections, conn_state, conn_sid, startup_vars, loop_vars,
                   bridge_vars, parser_vars, multi_vars>>

\* receive_text raises WebSocketDisconnect: the except clause removes the
\* entry of the session id, whichever connection it holds.
WS_Disconnect(c) ==
    /\ conn_state[c] = "live"
    /\ active_connections' = Remove(active_connections, conn_sid[c])
    /\ conn_state' = [conn_state EXCEPT ![c] = "closed"]
    /\ UNCHANGED <<conn_sid, conn_handled, startup_vars, loop_vars, bridge_vars,
                   parser_vars, multi_vars>>

\* json.loads(data) raises JSONDecodeError (or process_chat_message raises
\* AttributeError on a message that is not an object): no except clause
\* matches and the handler ends with the entry in place.
WS_BadMessage(c) ==
    /\ conn_state[c] = "live"
    /\ conn_state' = [conn_state EXCEPT ![c] = "crashed"]
    /\ UNCHANGED <<active_connections, conn_sid, conn_handled, startup_vars, loop_vars,
                   bridge_vars, parser_vars, multi_vars>>

\* A send_text of process_chat_message raises and the exception leaves the
\* handler.  What is raised depends on the framework: WebSocketDisconnect
\* is handled as a disconnect, anything else is not handled.
WS_SendFailure(c) ==
    /\ conn_state[c] = "live"
    /\ \E raised \in {"WebSocketDisconnect", "RuntimeError"} :
           IF raised = "WebSocketDisconnect"
           THEN /\ active_connections' =
                       Remove(active_connections, conn_sid[c])
                /\ conn_state' = [conn_state EXCEPT ![c] = "closed"]
           ELSE /\ conn_state' = [conn_state EXCEPT ![c] = "crashed"]
                /\ UNCHANGED active_connections
    /\ UNCHANGED <<conn_sid, conn_handled, startup_vars, loop_vars, bridge_vars,
                   parser_vars, multi_vars>>

(***************************************************************************)
(* The event loop: the code of a coroutine between two awaits runs without *)
(* any other coroutine running; threads run beside it.                     *)
(***************************************************************************)
\* What loop_owner holds while the get_active_sessions coroutine runs.
SessionsTask == MaxConns + 1

\* The handlers that are inside a register or remove step.
MidStep == {"registering", "removing_check", "removing_del"}

\* await websocket.accept() returns: the handler is resumed at line 68.
L_Accepted(c, sid) ==
    /\ loop_owner = NoConn
    /\ conn_state[c] = "new"
    /\ loop_owner' = c
    /\ conn_state' = [conn_state EXCEPT ![c] = "registering"]
    /\ conn_sid' = [conn_sid EXCEPT ![c] = sid]
    /\ UNCHANGED <<active_connections, conn_handled, sessions_pc, listed,
                   startup_vars, bridge_vars, parser_vars, multi_vars>>

\* Line 68, then the handler runs on to await websocket.receive_text().
L_Register(c) ==
    /\ conn_state[c] = "registering"
    /\ active_connections' = Register(active_connections, conn_sid[c], c)
    /\ conn_state' = [conn_state EXCEPT ![c] = "live"]
    /\ loop_owner' = NoConn
    /\ UNCHANGED <<conn_sid, conn_handled, sessions_pc, listed,
                   startup_vars, bridge_vars, parser_vars, multi_vars>>

\* receive_text raises WebSocketDisconnect: the handler is resumed in its
\* except clause.
L_Disconnected(c) ==
    /\ loop_owner = NoConn
    /\ conn_state[c] = "live"
    /\ loop_owner' = c
    /\ conn_state' = [conn_state EXCEPT ![c] = "removing_check"]
    /\ UNCHANGED <<active_connections, conn_sid, conn_handled, sessions_pc,
                   listed, startup_vars, bridge_vars, parser_vars, multi_vars>>

\* A membership test that gives the event loop to other coroutines before
\* the deletion (an await between lines 80 and 81).
L_RemoveCheckYields(c) ==
    /\ conn_state[c] = "removing_check"
    /\ conn_state' = [conn_state EXCEPT ![c] =
            IF conn_sid[c] \in GetActiveSessions THEN "removing_del"
            ELSE "closed"]
    /\ loop_owner' = NoConn
    /\ UNCHANGED <<active_connections, conn_sid, conn_handled, sessions_pc,
                   listed, startup_vars, bridge_vars, parser_vars, multi_vars>>

\* Line 80: if session_id in active_connections
L_RemoveCheck(c) ==
    /\ conn_state[c] = "removing_check"
    /\ IF conn_sid[c] \in GetActiveSessions
       THEN /\ conn_state' = [conn_state EXCEPT ![c] = "removing_del"]
            /\ UNCHANGED loop_owner
       ELSE /\ conn_state' = [conn_state EXCEPT ![c] = "closed"]
            /\ loop_owner' = NoConn
    /\ UNCHANGED <<active_connections, conn_sid, conn_handled, sessions_pc,
                   listed, startup_vars, bridge_vars, parser_vars, multi_vars>>

\* Line 81: del active_connections[session_id]; the handler then returns.
L_RemoveDel(c) ==
    /\ conn_state[c] = "removing_del"
    /\ active_connections' = Remove(active_connections, conn_sid[c])
    /\ conn_state' = [conn_state EXCEPT ![c] = "closed"]
    /\ loop_owner' = NoConn
    /\ UNCHANGED <<conn_sid, conn_handled, sessions_pc, listed,
                   startup_vars, bridge_vars, parser_vars, multi_vars>>

\* get_active_sessions is started: list(active_connections.keys())
L_SessionsKeys ==
    /\ loop_owner = NoConn
    /\ sessions_pc = "idle"
    /\ loop_owner' = SessionsTask
    /\ sessions_pc' = "count"
    /\ listed' = [listed EXCEPT !.keys = GetActiveSessions]
    /\ UNCHANGED <<registry_vars, startup_vars, bridge_vars, parser_vars, multi_vars>>

\* len(active_connections), and the response is returned.
L_SessionsCount ==
    /\ sessions_pc = "count"
    /\ listed' = [listed EXCEPT !.count = Cardinality(GetActiveSessions)]
    /\ sessions_pc' = "idle"
    /\ loop_owner' = NoConn
    /\ UNCHANGED <<registry_vars, startup_vars, bridge_vars, parser_vars, multi_vars>>

\* No coroutine is running and /api/sessions has not been asked.
LoopIdle ==
    /\ loop_owner = NoConn
    /\ sessions_pc = "idle"
    /\ listed = [keys |-> {}, count |-> 0]

(***************************************************************************)
(* Chat requests in flight at once, one on each connection.                *)
(***************************************************************************)
MaxReqLines == 1

\* A request that has not been received.
NoRequest ==
    [lines |-> <<>>, pc |-> "none", thread |-> "none", idx |-> 1,
     ps_parts |-> <<>>, content_parts |-> <<>>, complete_response |-> <<>>]

\* No chat request is in flight.
MultiIdle ==
    /\ requests = [r \in Conns |-> NoRequest]
    /\ queues = [r \in Conns |-> <<>>]
    /\ socket_log = [r \in Conns |-> <<>>]

\* No client has connected.
RegistryEmpty ==
    /\ active_connections = [sid \in SessionIds |-> NoConn]
    /\ conn_state = [c \in Conns |-> "new"]
    /\ conn_sid = [c \in Conns |-> ""]
    /\ conn_handled = [c \in Conns |-> 0]

\* A call on the processor: the operation, its argument (a callback or a
\* chunk), whether it
\* returned or raised, and the callback invocations it made.
ProcCall(op, callback, chunk, kind, calls) ==
    [op |-> op, callback |-> callback, chunk |-> chunk, kind |-> kind,
     calls |-> calls]
NoProcCall == ProcCall("none", PyNone, NoChunk, "none", <<>>)

\* StreamingContentProcessor.__init__
ProcessorFresh ==
    /\ processed_content = <<>>
    /\ processing_callbacks = <<>>
    /\ proc_ret = NoProcCall

ParserFresh ==
    /\ chunks = <<>>
    /\ ret = Returned("none", NoChunk)
    /\ fed = <<>>
    /\ last_read = NoRead

Init ==
    /\ ParserFresh /\ ProcessorFresh
    /\ AppServing
    /\ RegistryEmpty /\ LoopIdle /\ MultiIdle
    /\ mode \in {"ws", "rest"}
    /\ transport \in {"ok", "status", "timeout", "connerr"}
    /\ lines \in SeqsUpTo(BridgeLines, MaxLines)
    /\ (transport # "ok" => lines = <<>>)
    /\ ws_open = (mode = "ws")
    /\ sent = <<>>
    /\ pc = IF mode = "ws" THEN "ack" ELSE "none"
    /\ psr_exit = "none"
    /\ joined = FALSE
    /\ complete_response = <<>>
    /\ chunk_queue = <<>>
    /\ content_parts = <<>>
    /\ ps_pc = "idle"
    /\ ps_ctx = "none"
    /\ idx = 1
    /\ ps_parts = <<>>
    /\ ps_meta = {}
    /\ rest_pc = IF mode = "rest" THEN "call" ELSE "none"
    /\ rest_status = "none"
    /\ rest_message = <<>>

(***************************************************************************)
(* StreamingWebhookHandler.process_stream, with the generator              *)
(* send_streaming_request it iterates.                                     *)
(***************************************************************************)
\* Flatten a list of texts: ''.join(parts)
RECURSIVE Join(_)
Join(parts) == IF parts = <<>> THEN <<>> ELSE Head(parts) \o Join(Tail(parts))

\* The callbacks are passed only by process_streaming_response's worker.
HasCallbacks == ps_ctx = "worker"

\* An on_chunk that records the content without queueing it.
OnChunkNotQueued(content) ==
    IF Truthy(content)
    THEN /\ content_parts' = Append(content_parts, content)
         /\ UNCHANGED chunk_queue
    ELSE UNCHANGED <<content_parts, chunk_queue>>

\* on_chunk(chunk, content) of process_streaming_response
OnChunk(content) ==
    IF Truthy(content)
    THEN /\ content_parts' = Append(content_parts, content)
         /\ chunk_queue' = QueuePut(chunk_queue, Entry("chunk", content))
    ELSE UNCHANGED <<content_parts, chunk_queue>>

\* An on_complete that queues its entry twice.
OnCompleteTwice(content) ==
    chunk_queue' = QueuePut(QueuePut(chunk_queue, Entry("complete", content)),
                            Entry("complete", content))

\* on_complete(content, metadata) of process_streaming_response
OnComplete(content) ==
    chunk_queue' = QueuePut(chunk_queue, Entry("complete", content))

\* First step of the generator: session.post and the status check.  Every
\* failure is printed and ends the generator without yielding.
PS_Request ==
    /\ ps_pc = "request"
    /\ ps_pc' = IF transport = "ok" THEN "lines" ELSE "finish"
    /\ UNCHANGED <<app_vars, parser_vars, env_vars, ws_open, sent, pc, psr_exit, joined, psr_locals,
                   ps_ctx, idx, ps_parts, ps_meta, rest_vars>>

\* The generator is exhausted: the for loop of process_stream ends.
PS_Exhausted ==
    /\ ps_pc = "lines"
    /\ idx > Len(lines)
    /\ ps_pc' = "finish"
    /\ UNCHANGED <<app_vars, parser_vars, env_vars, ws_open, sent, pc, psr_exit, joined, psr_locals,
                   ps_ctx, idx, ps_parts, ps_meta, rest_vars>>

\* A line the generator does not yield: empty, or not JSON.
PS_SkipLine ==
    /\ ps_pc = "lines"
    /\ idx <= Len(lines)
    /\ ~(LineTruthy(lines[idx]) /\ JsonLoadsOk(lines[idx]))
    /\ idx' = idx + 1
    /\ UNCHANGED <<app_vars, parser_vars, env_vars, ws_open, sent, pc, psr_exit, joined, psr_locals,
                   ps_pc, ps_ctx, ps_parts, ps_meta, rest_vars>>

\* A yielded value without .get: chunk.get raises AttributeError, which
\* nothing in process_stream catches.
PS_Raise ==
    /\ ps_pc = "lines"
    /\ idx <= Len(lines)
    /\ LineTruthy(lines[idx]) /\ JsonLoadsOk(lines[idx])
    /\ ~IsDict(lines[idx])
    /\ ps_pc' = "raised"
    /\ idx' = idx + 1
    /\ UNCHANGED <<app_vars, parser_vars, env_vars, ws_open, sent, pc, psr_exit, joined, psr_locals,
                   ps_ctx, ps_parts, ps_meta, rest_vars>>

\* A yielded 'item' chunk.
PS_Item ==
    /\ ps_pc = "lines"
    /\ idx <= Len(lines)
    /\ LineTruthy(lines[idx]) /\ JsonLoadsOk(lines[idx]) /\ IsDict(lines[idx])
    /\ GetType(lines[idx]) = "item"
    /\ ~QueueFull(chunk_queue)
    /\ LET content == GetContent(lines[idx])
       IN  /\ ps_parts' = IF Truthy(content) THEN Append(ps_parts, content)
                          ELSE ps_parts
           /\ IF Truthy(content) /\ HasCallbacks
              THEN OnChunk(content)
              ELSE UNCHANGED <<content_parts, chunk_queue>>
    /\ idx' = idx + 1
    /\ UNCHANGED <<app_vars, parser_vars, env_vars, ws_open, sent, pc, psr_exit, joined,
                   complete_response, ps_pc, ps_ctx, ps_meta, rest_vars>>

\* process_stream giving up on a chunk whose type it does not know.
PS_StartOrOtherStrict ==
    /\ ps_pc = "lines"
    /\ idx <= Len(lines)
    /\ LineTruthy(lines[idx]) /\ JsonLoadsOk(lines[idx]) /\ IsDict(lines[idx])
    /\ GetType(lines[idx]) \notin {"item", "end"}
    /\ ps_meta' = IF GetType(lines[idx]) = "start" THEN ps_meta \cup {"start"}
                  ELSE ps_meta
    /\ ps_pc' = IF GetType(lines[idx]) = "start" THEN ps_pc ELSE "raised"
    /\ idx' = idx + 1
    /\ UNCHANGED <<app_vars, parser_vars, env_vars, ws_open, sent, pc, psr_exit, joined, psr_locals,
                   ps_ctx, ps_parts, rest_vars>>

\* A yielded 'start' chunk, or one of any other type: printed only.
PS_StartOrOther ==
    /\ ps_pc = "lines"
    /\ idx <= Len(lines)
    /\ LineTruthy(lines[idx]) /\ JsonLoadsOk(lines[idx]) /\ IsDict(lines[idx])
    /\ GetType(lines[idx]) \notin {"item", "end"}
    /\ ps_meta' = IF GetType(lines[idx]) = "start" THEN ps_meta \cup {"start"}
                  ELSE ps_meta
    /\ idx' = idx + 1
    /\ UNCHANGED <<app_vars, parser_vars, env_vars, ws_open, sent, pc, psr_exit, joined, psr_locals,
                   ps_pc, ps_ctx, ps_parts, rest_vars>>

\* process_stream noting the 'end' chunk and going on with the loop.
PS_EndContinues ==
    /\ ps_pc = "lines"
    /\ idx <= Len(lines)
    /\ LineTruthy(lines[idx]) /\ JsonLoadsOk(lines[idx]) /\ IsDict(lines[idx])
    /\ GetType(lines[idx]) = "end"
    /\ ps_meta' = ps_meta \cup {"end"}
    /\ idx' = idx + 1
    /\ UNCHANGED <<app_vars, parser_vars, env_vars, ws_open, sent, pc, psr_exit, joined, psr_locals,
                   ps_pc, ps_ctx, ps_parts, rest_vars>>

\* A yielded 'end' chunk: break.
PS_End ==
    /\ ps_pc = "lines"
    /\ idx <= Len(lines)
    /\ LineTruthy(lines[idx]) /\ JsonLoadsOk(lines[idx]) /\ IsDict(lines[idx])
    /\ GetType(lines[idx]) = "end"
    /\ ps_meta' = ps_meta \cup {"end"}
    /\ ps_pc' = "finish"
    /\ idx' = idx + 1
    /\ UNCHANGED <<app_vars, parser_vars, env_vars, ws_open, sent, pc, psr_exit, joined, psr_locals,
                   ps_ctx, ps_parts, rest_vars>>

\* After the loop: assemble and call on_complete if given.
PS_Finish ==
    /\ ps_pc = "finish"
    /\ ~(HasCallbacks /\ QueueFull(chunk_queue))
    /\ IF HasCallbacks THEN OnComplete(Join(ps_parts))
       ELSE UNCHANGED chunk_queue
    /\ ps_pc' = "returning"
    /\ UNCHANGED <<app_vars, parser_vars, env_vars, ws_open, sent, pc, psr_exit, joined,
                   complete_response, content_parts, ps_ctx, idx, ps_parts,
                   ps_meta, rest_vars>>

\* Line 126: return complete_content.  In a worker thread this ends the
\* thread, some time after on_complete has put its entry.
PS_Return ==
    /\ ps_pc = "returning"
    /\ ps_pc' = "done"
    /\ UNCHANGED <<app_vars, parser_vars, env_vars, ws_open, sent, pc, psr_exit, joined,
                   psr_locals, ps_ctx, idx, ps_parts, ps_meta, rest_vars>>

\* The value process_stream returns.
PS_Result == Join(ps_parts)

\* The execution context that is inside the blocking network call
\* (session.post, response.iter_lines), if any.
BlockingReadCtx == IF ps_pc \in {"request", "lines"} THEN ps_ctx ELSE "none"

(***************************************************************************)
(* process_chat_message and process_streaming_response (the event loop).   *)
(***************************************************************************)
\* stream_thread.is_alive()
ThreadAlive ==
    ps_ctx = "worker" /\ ps_pc \in {"request", "lines", "finish", "returning"}

\* await websocket.send_text(...) on a connection the client has not closed.
Deliver(log, envelope) == Append(log, envelope)

\* process_chat_message going on to the bridge without the acknowledgment.
PCM_AckOmitted ==
    /\ pc = "ack"
    /\ pc' = "spawn"
    /\ UNCHANGED <<app_vars, parser_vars, env_vars, ws_open, sent, psr_exit, joined, psr_locals,
                   ps_vars, rest_vars>>

\* Line 93: the acknowledgment, sent before the try block.
PCM_Ack ==
    /\ pc = "ack"
    /\ IF ws_open
       THEN sent' = Deliver(sent, Entry("ack", <<>>)) /\ pc' = "spawn"
       ELSE UNCHANGED sent /\ pc' = "raised"
    /\ UNCHANGED <<app_vars, parser_vars, env_vars, ws_open, psr_exit, joined, psr_locals, ps_vars,
                   rest_vars>>

\* Lines 136-166: the queue, the callbacks, the thread is started.
PSR_Spawn ==
    /\ pc = "spawn"
    /\ chunk_queue' = <<>>
    /\ content_parts' = <<>>
    /\ complete_response' = <<>>
    /\ ps_pc' = "request"
    /\ ps_ctx' = "worker"
    /\ pc' = "check"
    /\ UNCHANGED <<app_vars, parser_vars, env_vars, ws_open, sent, psr_exit, joined, idx, ps_parts,
                   ps_meta, rest_vars>>

\* Line 167: while stream_thread.is_alive() or not chunk_queue.empty()
PSR_Check ==
    /\ pc = "check"
    /\ pc' = IF ThreadAlive \/ chunk_queue # <<>> THEN "get" ELSE "join"
    /\ UNCHANGED <<app_vars, parser_vars, env_vars, ws_open, sent, psr_exit, joined, psr_locals,
                   ps_vars, rest_vars>>

\* Line 170 with nothing queued for 0.1 s: queue.Empty, sleep, continue.
PSR_GetEmpty ==
    /\ pc = "get"
    /\ chunk_queue = <<>>
    /\ pc' = "check"
    /\ UNCHANGED <<app_vars, parser_vars, env_vars, ws_open, sent, psr_exit, joined, psr_locals,
                   ps_vars, rest_vars>>

\* Lines 170-173: a chunk entry is taken and forwarded.  send_text on a
\* connection the client closed raises, and the exception leaves
\* process_streaming_response (there is no handler and no finally).
PSR_GetChunk ==
    /\ pc = "get"
    /\ chunk_queue # <<>>
    /\ QueueHead(chunk_queue).type = "chunk"
    /\ chunk_queue' = QueueRest(chunk_queue)
    /\ IF ws_open
       THEN /\ sent' = Deliver(sent, QueueHead(chunk_queue))
            /\ pc' = "check"
            /\ UNCHANGED psr_exit
       ELSE /\ UNCHANGED sent
            /\ pc' = "except"
            /\ psr_exit' = "raised"
    /\ UNCHANGED <<app_vars, parser_vars, env_vars, ws_open, joined, complete_response,
                   content_parts, ps_vars, rest_vars>>

\* Lines 174-176: the complete entry ends the loop.
PSR_GetComplete ==
    /\ pc = "get"
    /\ chunk_queue # <<>>
    /\ QueueHead(chunk_queue).type = "complete"
    /\ chunk_queue' = QueueRest(chunk_queue)
    /\ complete_response' = QueueHead(chunk_queue).content
    /\ pc' = "join"
    /\ UNCHANGED <<app_vars, parser_vars, env_vars, ws_open, sent, psr_exit, joined, content_parts,
                   ps_vars, rest_vars>>

\* A return that does not wait for the thread.
PSR_JoinNoWait ==
    /\ pc = "join"
    /\ joined' = TRUE
    /\ psr_exit' = "returned"
    /\ pc' = "final"
    /\ UNCHANGED <<app_vars, parser_vars, env_vars, ws_open, sent, psr_locals, ps_vars, rest_vars>>

\* Lines 184-186: join blocks until the thread has ended, then return.
PSR_Join ==
    /\ pc = "join"
    /\ ~ThreadAlive
    /\ joined' = TRUE
    /\ psr_exit' = "returned"
    /\ pc' = "final"
    /\ UNCHANGED <<app_vars, parser_vars, env_vars, ws_open, sent, psr_locals, ps_vars, rest_vars>>

\* Lines 113-119: "if complete_response:" guards the complete envelope.  A
\* failed send is caught by the handler of line 121.
PCM_Complete ==
    /\ pc = "final"
    /\ IF Truthy(complete_response)
       THEN IF ws_open
            THEN /\ sent' = Deliver(sent, Entry("complete", complete_response))
                 /\ pc' = "returned"
            ELSE UNCHANGED sent /\ pc' = "except"
       ELSE UNCHANGED sent /\ pc' = "returned"
    /\ UNCHANGED <<app_vars, parser_vars, env_vars, ws_open, psr_exit, joined, psr_locals, ps_vars,
                   rest_vars>>

\* Lines 121-127: the handler sends the error envelope; when that send fails
\* too the exception leaves process_chat_message.
PCM_Except ==
    /\ pc = "except"
    /\ IF ws_open
       THEN sent' = Deliver(sent, Entry("error", <<>>)) /\ pc' = "returned"
       ELSE UNCHANGED sent /\ pc' = "raised"
    /\ UNCHANGED <<app_vars, parser_vars, env_vars, ws_open, psr_exit, joined, psr_locals, ps_vars,
                   rest_vars>>

\* The client closes its WebSocket while the request is in flight.
Disconnect ==
    /\ mode = "ws"
    /\ ws_open
    /\ pc \notin {"returned", "raised"}
    /\ ws_open' = FALSE
    /\ UNCHANGED <<app_vars, parser_vars, env_vars, sent, pc, psr_exit, joined, psr_locals, ps_vars,
                   rest_vars>>

(***************************************************************************)
(* chat_endpoint: POST /api/chat.  An async def without any await: the     *)
(* call of process_stream runs on the event loop.                          *)
(***************************************************************************)
Rest_Call ==
    /\ rest_pc = "call"
    /\ ps_pc' = "request"
    /\ ps_ctx' = "loop"
    /\ rest_pc' = "running"
    /\ UNCHANGED <<app_vars, parser_vars, env_vars, ws_open, sent, pc, psr_exit, joined, psr_locals,
                   idx, ps_parts, ps_meta, rest_status, rest_message>>

\* str(e) of the AttributeError chunk.get raises on a value that is not a
\* dict, as one token.
AttributeErrorText == <<"'list' object has no attribute 'get'">>

\* f"Error: {str(e)}"
ErrorMessage(text) == <<"E", "r", "r", "o", "r", ":", " ">> \o text

\* Lines 206-219: status "success" for any returned value, "error" when
\* process_stream raised.
Rest_Return ==
    /\ rest_pc = "running"
    /\ ps_pc \in {"done", "raised"}
    /\ rest_status' = IF ps_pc = "done" THEN "success" ELSE "error"
    /\ rest_message' = IF ps_pc = "done" THEN PS_Result
                       ELSE ErrorMessage(AttributeErrorText)
    /\ rest_pc' = "returned"
    /\ UNCHANGED <<app_vars, parser_vars, env_vars, ws_open, sent, pc, psr_exit, joined, psr_locals,
                   ps_vars>>

Next ==
    \/ PS_Request
    \/ PS_Exhausted
    \/ PS_SkipLine
    \/ PS_Raise
    \/ PS_Item
    \/ PS_StartOrOther
    \/ PS_End
    \/ PS_Finish
    \/ PS_Return
    \/ PCM_Ack
    \/ PSR_Spawn
    \/ PSR_Check
    \/ PSR_GetEmpty
    \/ PSR_GetChunk
    \/ PSR_GetComplete
    \/ PSR_Join
    \/ PCM_Complete
    \/ PCM_Except
    \/ Disconnect
    \/ Rest_Call
    \/ Rest_Return

Spec == Init /\ [][Next]_vars

(***************************************************************************)
(* N8nStreamParser and StreamChunk (src/stream_parser.py).                 *)
(***************************************************************************)
\* StreamChunk.__post_init__: the timestamp is set when
\* metadata.get('timestamp') is truthy and a number.
PostInitTimestamp(metadata) ==
    IF metadata.ts_kind = "number" /\ metadata.ts # 0
    THEN [set |-> TRUE, ms |-> metadata.ts]
    ELSE NoTimestamp

\* StreamChunk(type=..., content=..., metadata=...)
StreamChunk(type, content, metadata) ==
    [type |-> type, content |-> content, metadata |-> metadata,
     timestamp |-> PostInitTimestamp(metadata)]

\* self.chunks.insert(0, chunk): the newest chunk first.
ChunksPrepend(list, chunk) == <<chunk>> \o list

\* self.chunks.append(chunk)
ChunksAppend(list, chunk) == Append(list, chunk)

\* The state of the bridge while only the parser is exercised.
BridgeIdle ==
    /\ mode = "ws"
    /\ transport = "ok"
    /\ lines = <<>>
    /\ ws_open = TRUE
    /\ sent = <<>>
    /\ pc = "ack"
    /\ psr_exit = "none"
    /\ joined = FALSE
    /\ complete_response = <<>>
    /\ chunk_queue = <<>>
    /\ content_parts = <<>>
    /\ ps_pc = "idle"
    /\ ps_ctx = "none"
    /\ idx = 1
    /\ ps_parts = <<>>
    /\ ps_meta = {}
    /\ rest_pc = "none"
    /\ rest_status = "none"
    /\ rest_message = <<>>

\* parse_line recording a chunk of unknown type for an empty line.
Parse_EmptyRecorded(line) ==
    /\ StripIsEmpty(line)
    /\ chunks' = Append(chunks, StreamChunk("unknown", <<>>, NoMeta))
    /\ ret' = Returned("none", NoChunk)

\* parse_line on a line that is empty once stripped: returns None.
Parse_Empty(line) ==
    /\ StripIsEmpty(line)
    /\ ret' = Returned("none", NoChunk)
    /\ UNCHANGED chunks

\* parse_line letting JSONDecodeError escape.
Parse_MalformedRaises(line) ==
    /\ ~StripIsEmpty(line)
    /\ ~JsonLoadsOk(line)
    /\ ret' = Returned("raised", NoChunk)
    /\ UNCHANGED chunks

\* parse_line on text json.loads rejects: JSONDecodeError is caught, None.
Parse_Malformed(line) ==
    /\ ~StripIsEmpty(line)
    /\ ~JsonLoadsOk(line)
    /\ ret' = Returned("none", NoChunk)
    /\ UNCHANGED chunks

\* parse_line on a JSON value that is no object: data.get raises
\* AttributeError, which the handler for JSONDecodeError does not catch.
Parse_NonObject(line) ==
    /\ ~StripIsEmpty(line)
    /\ JsonLoadsOk(line)
    /\ ~IsDict(line)
    /\ ret' = Returned("raised", NoChunk)
    /\ UNCHANGED chunks

\* StreamChunk.__post_init__ evaluates self.metadata.get('timestamp') outside
\* its try block: a metadata value without .get raises AttributeError.
PostInitRaises(metadata) == ~metadata.is_dict

\* parse_line on a JSON object whose "metadata" is not an object: the
\* constructor raises AttributeError, which the handler for JSONDecodeError
\* does not catch; nothing is appended.
Parse_BadMetadata(line) ==
    /\ ~StripIsEmpty(line)
    /\ JsonLoadsOk(line)
    /\ IsDict(line)
    /\ PostInitRaises(GetMetadata(line))
    /\ ret' = Returned("raised", NoChunk)
    /\ UNCHANGED chunks

\* parse_line reading the content under a key the lines do not have.
Parse_ObjectContentDropped(line) ==
    /\ ~StripIsEmpty(line)
    /\ JsonLoadsOk(line)
    /\ IsDict(line)
    /\ ~PostInitRaises(GetMetadata(line))
    /\ LET chunk == StreamChunk(GetType(line), <<>>, GetMetadata(line))
       IN  /\ chunks' = ChunksAppend(chunks, chunk)
           /\ ret' = Returned("chunk", chunk)

\* parse_line on a JSON object: the chunk is built, appended and returned.
Parse_Object(line) ==
    /\ ~StripIsEmpty(line)
    /\ JsonLoadsOk(line)
    /\ IsDict(line)
    /\ ~PostInitRaises(GetMetadata(line))
    /\ LET chunk == StreamChunk(GetType(line), GetContent(line),
                                GetMetadata(line))
       IN  /\ chunks' = ChunksAppend(chunks, chunk)
           /\ ret' = Returned("chunk", chunk)

\* One call of N8nStreamParser.parse_line.
ParseLine(line) ==
    /\ fed' = Append(fed, line)
    /\ \/ Parse_Empty(line)
       \/ Parse_Malformed(line)
       \/ Parse_NonObject(line)
       \/ Parse_BadMetadata(line)
       \/ Parse_Object(line)
    /\ last_read' = NoRead
    /\ UNCHANGED <<app_vars, bridge_vars, processor_vars>>

\* N8nStreamParser.get_complete_content
RECURSIVE GetCompleteContent(_)
GetCompleteContent(list) ==
    IF list = <<>> THEN <<>>
    ELSE IF Head(list).type = "item" /\ Truthy(Head(list).content)
         THEN Head(list).content \o GetCompleteContent(Tail(list))
         ELSE GetCompleteContent(Tail(list))

\* Chunks of a list that satisfy a test, in list order.
ChunksOfType(list, t) == SelectSeq(list, LAMBDA c : c.type = t)

\* [c.timestamp for c in self.chunks if c.timestamp], as milliseconds.
Timestamps(list) ==
    {list[i].timestamp.ms : i \in {j \in 1..Len(list) : list[j].timestamp.set}}

NumTimestamps(list) ==
    Cardinality({j \in 1..Len(list) : list[j].timestamp.set})

SetMax(S) == CHOOSE x \in S : \A y \in S : y <= x
SetMin(S) == CHOOSE x \in S : \A y \in S : x <= y

\* N8nStreamParser.get_stream_stats; duration_seconds is kept in
\* milliseconds and is present when at least two chunks have a timestamp.
GetStreamStats(list) ==
    [total_chunks |-> Len(list),
     content_chunks |-> Len(ChunksOfType(list, "item")),
     start_chunks |-> Len(ChunksOfType(list, "start")),
     end_chunks |-> Len(ChunksOfType(list, "end")),
     total_content_length |-> Len(GetCompleteContent(list)),
     has_start |-> \E i \in 1..Len(list) : list[i].type = "start",
     has_end |-> \E i \in 1..Len(list) : list[i].type = "end",
     has_duration |-> NumTimestamps(list) >= 2,
     duration_ms |-> IF NumTimestamps(list) >= 2
                     THEN SetMax(Timestamps(list)) - SetMin(Timestamps(list))
                     ELSE 0]

\* dict.update on metadata: the keys of the second override the first's.
MetaUpdate(a, b) ==
    [is_dict |-> TRUE, has_node |-> a.has_node \/ b.has_node,
     nodeId |-> IF b.has_node THEN b.nodeId ELSE a.nodeId,
     ts_kind |-> IF b.ts_kind # "absent" THEN b.ts_kind ELSE a.ts_kind,
     ts |-> IF b.ts_kind # "absent" THEN b.ts ELSE a.ts]

\* N8nStreamParser.get_session_info: the metadata of the start chunks,
\* merged in order, and the metadata of the last end chunk.
RECURSIVE SessionInfoFrom(_, _)
SessionInfoFrom(list, info) ==
    IF list = <<>> THEN info
    ELSE IF Head(list).type = "start"
         THEN SessionInfoFrom(Tail(list),
                  [info EXCEPT !.start = MetaUpdate(@, Head(list).metadata)])
         ELSE IF Head(list).type = "end"
              THEN SessionInfoFrom(Tail(list),
                       [info EXCEPT !.has_end = TRUE,
                                    !.end_metadata = Head(list).metadata])
              ELSE SessionInfoFrom(Tail(list), info)

GetSessionInfo(list) ==
    SessionInfoFrom(list,
        [start |-> NoMeta, has_end |-> FALSE, end_metadata |-> NoMeta])

\* chunk.metadata.get('nodeId')
MetaGetNode(metadata) == IF metadata.has_node THEN metadata.nodeId ELSE PyNone

\* N8nStreamParser.filter_by_type
FilterByType(list, chunk_type) == ChunksOfType(list, chunk_type)

\* N8nStreamParser.filter_by_node
FilterByNode(list, node_id) ==
    SelectSeq(list, LAMBDA c : MetaGetNode(c.metadata) = node_id)

\* N8nStreamParser.get_content_by_node
RECURSIVE GetContentByNode(_, _)
GetContentByNode(list, node_id) ==
    IF list = <<>> THEN <<>>
    ELSE IF /\ Head(list).type = "item"
            /\ MetaGetNode(Head(list).metadata) = node_id
            /\ Truthy(Head(list).content)
         THEN Head(list).content \o GetContentByNode(Tail(list), node_id)
         ELSE GetContentByNode(Tail(list), node_id)

\* The read operations the specifications call, with their arguments.
TypeArgs == {"start", "item", "end", "ping", "unknown"}
NodeArgs == {"n1", "n2", SampleNode, PyNone}
ReadCalls ==
    {<<"get_complete_content", PyNone>>, <<"get_stream_stats", PyNone>>,
     <<"get_session_info", PyNone>>}
    \cup {<<"filter_by_type", t>> : t \in TypeArgs}
    \cup {<<"filter_by_node", n>> : n \in NodeArgs}
    \cup {<<"get_content_by_node", n>> : n \in NodeArgs}

\* What a read operation returns on a chunk list.
ReadResult(op, arg, list) ==
    CASE op = "get_complete_content" -> GetCompleteContent(list)
      [] op = "get_stream_stats" -> GetStreamStats(list)
      [] op = "get_session_info" -> GetSessionInfo(list)
      [] op = "filter_by_type" -> FilterByType(list, arg)
      [] op = "filter_by_node" -> FilterByNode(list, arg)
      [] op = "get_content_by_node" -> GetContentByNode(list, arg)

\* A read operation that hands the chunks over and empties the list.
P_ReadDraining ==
    \E call \in ReadCalls :
        /\ last_read' = ReadOf(call[1], call[2],
                               ReadResult(call[1], call[2], chunks))
        /\ chunks' = <<>>
        /\ UNCHANGED <<app_vars, bridge_vars, ret, fed, processor_vars>>

\* One call of a read operation: none of them assigns to self.chunks.
P_Read ==
    \E call \in ReadCalls :
        /\ last_read' = ReadOf(call[1], call[2],
                               ReadResult(call[1], call[2], chunks))
        /\ UNCHANGED <<app_vars, bridge_vars, chunks, ret, fed, processor_vars>>

P_ParseLine ==
    /\ Len(fed) < MaxFed
    /\ \E line \in ParserLines : ParseLine(line)

ParserInit == ParserFresh /\ ProcessorFresh /\ BridgeIdle /\ AppServing /\ RegistryEmpty /\ LoopIdle /\ MultiIdle

ParserNext == P_ParseLine \/ P_Read

ParserSpec == ParserInit /\ [][ParserNext]_vars

\* demo_parser and demo_with_sample_data: the lines of the sample stream
\* are passed to parse_line of a fresh parser, in order.
P_FeedSample ==
    /\ Len(fed) < Len(SampleStream)
    /\ ParseLine(SampleStream[Len(fed) + 1])

SampleNext == P_FeedSample \/ P_Read

SampleSpec == ParserInit /\ [][SampleNext]_vars

\* Item lines that differ in metadata.timestamp only: absent metadata, no
\* timestamp key, a string, the number 0 and non-zero numbers.
TimestampLines ==
    {ItemLineWith(<<"a">>, FALSE, FALSE, NoMeta),
     ItemLineWith(<<"a">>, FALSE, TRUE, Meta("n1", "absent", 0)),
     ItemLineWith(<<"a">>, FALSE, TRUE, Meta("n1", "string", 0)),
     ItemLineWith(<<"a">>, FALSE, TRUE, Meta("n1", "number", 0)),
     ItemLineWith(<<"a">>, FALSE, TRUE, Meta("n1", "number", 1)),
     ItemLineWith(<<"a">>, FALSE, TRUE, Meta("n1", "number", 2))}

\* parse_line on such lines: each one constructs a StreamChunk.
P_ParseTimestampLine ==
    /\ Len(fed) < MaxFed
    /\ \E line \in TimestampLines : ParseLine(line)

TimestampNext == P_ParseTimestampLine \/ P_Read

TimestampSpec == ParserInit /\ [][TimestampNext]_vars

(***************************************************************************)
(* StreamingContentProcessor (src/stream_parser.py), fed as                *)
(* streaming_examples.py feeds it: each chunk parse_line returns is passed *)
(* to process_realtime.                                                    *)
(***************************************************************************)
MaxProcessed == 3

\* The callables a caller registers: one returns, one raises.
Callbacks == {"cb_returns", "cb_raises"}

\* The attributes __init__ assigns on the processor.
ProcessorAttributes == {"parser", "processed_content", "processing_callbacks"}

\* StreamingContentProcessor.add_callback: the append is made on
\* self.processed_callbacks; the attribute lookup raises AttributeError when
\* the object has no such attribute.
SCP_AddCallback ==
    \E callback \in Callbacks :
        /\ IF "processed_callbacks" \in ProcessorAttributes
           THEN /\ processing_callbacks' = processing_callbacks
                /\ proc_ret' = ProcCall("add_callback", callback, NoChunk,
                                        "returned", <<>>)
           ELSE /\ processing_callbacks' = processing_callbacks
                /\ proc_ret' = ProcCall("add_callback", callback, NoChunk,
                                        "raised", <<>>)
        /\ UNCHANGED <<processed_content, chunks, ret, fed, last_read,
                       app_vars, bridge_vars>>

\* StreamingContentProcessor.process_realtime on the chunk parse_line has
\* just returned: an item with content is accumulated and every callback of
\* processing_callbacks is called with the chunk and the content so far; an
\* exception of a callback is caught and printed.
SCP_ProcessRealtime ==
    /\ ret.kind = "chunk"
    /\ Len(processed_content) + Len(ret.chunk.content) <= MaxProcessed
    /\ IF ret.chunk.type = "item" /\ Truthy(ret.chunk.content)
       THEN /\ processed_content' = processed_content \o ret.chunk.content
            /\ proc_ret' =
                  ProcCall("process_realtime", PyNone, ret.chunk, "returned",
                           [i \in 1..Len(processing_callbacks) |->
                               [callback |-> processing_callbacks[i],
                                content |-> processed_content',
                                raised |-> processing_callbacks[i] = "cb_raises"]])
       ELSE /\ processed_content' = processed_content
            /\ proc_ret' = ProcCall("process_realtime", PyNone, ret.chunk,
                                    "returned", <<>>)
    /\ UNCHANGED <<processing_callbacks, chunks, ret, fed, last_read,
                   app_vars, bridge_vars>>

\* The lines whose chunks are handed to the processor.
ProcessorLines ==
    {StartLine, EndLine, ItemLine(<<>>), ItemLine(<<"a">>), ItemLine(<<"b">>)}

P_ParseProcessorLine ==
    /\ Len(fed) < MaxFed
    /\ \E line \in ProcessorLines : ParseLine(line)

ProcessorNext == P_ParseProcessorLine \/ SCP_AddCallback \/ SCP_ProcessRealtime

ProcessorSpec == ParserInit /\ [][ProcessorNext]_vars

(***************************************************************************)
(* A WebSocket chat request against a source that answers 200, keeps its   *)
(* connection open and keeps sending lines, none of them 'end'.            *)
(***************************************************************************)
\* The lines such a source sends: keep-alive events and empty items.
EndlessLines ==
    {BlankLine, GarbageLine, StartLine, OtherLine, ItemLine(<<>>)}

\* iter_lines on a connection the source keeps open: when the lines so far
\* are consumed the source sends the same lines again.
PS_MoreLines ==
    /\ ps_pc = "lines"
    /\ idx > Len(lines)
    /\ idx' = 1
    /\ UNCHANGED <<app_vars, parser_vars, env_vars, ws_open, sent, pc, psr_exit, joined, psr_locals,
                   ps_pc, ps_ctx, ps_parts, ps_meta, rest_vars>>

EndlessInit ==
    /\ ParserFresh /\ ProcessorFresh
    /\ AppServing
    /\ RegistryEmpty /\ LoopIdle /\ MultiIdle
    /\ mode = "ws"
    /\ transport = "ok"
    /\ lines \in SeqsUpTo(EndlessLines, MaxLines) \ {<<>>}
    /\ ws_open = TRUE
    /\ sent = <<>>
    /\ pc = "ack"
    /\ psr_exit = "none"
    /\ joined = FALSE
    /\ complete_response = <<>>
    /\ chunk_queue = <<>>
    /\ content_parts = <<>>
    /\ ps_pc = "idle"
    /\ ps_ctx = "none"
    /\ idx = 1
    /\ ps_parts = <<>>
    /\ ps_meta = {}
    /\ rest_pc = "none"
    /\ rest_status = "none"
    /\ rest_message = <<>>

\* The steps of the worker thread.
EndlessWorker ==
    \/ PS_Request
    \/ PS_SkipLine
    \/ PS_Item
    \/ PS_StartOrOther
    \/ PS_MoreLines

\* The steps of the coroutine on the event loop.
EndlessLoop ==
    \/ PCM_Ack
    \/ PSR_Spawn
    \/ PSR_Check
    \/ PSR_GetEmpty

EndlessNext == EndlessWorker \/ EndlessLoop \/ Disconnect

\* The thread and the event loop are both scheduled again and again.
EndlessSpec ==
    /\ EndlessInit
    /\ [][EndlessNext]_vars
    /\ WF_vars(EndlessWorker)
    /\ WF_vars(EndlessLoop)

(***************************************************************************)
(* The start of the process: by run_chatbot.py, or by uvicorn directly     *)
(* (python chatbot_app.py, uvicorn chatbot_app:app).                       *)
(***************************************************************************)
StartupInit ==
    /\ ParserFresh /\ ProcessorFresh
    /\ BridgeIdle
    /\ RegistryEmpty /\ LoopIdle /\ MultiIdle
    /\ environ \in [EnvNames -> {"unset", "empty", "set"}]
    /\ boot_pc \in {"main", "uvicorn"}
    /\ webhook_handler = "None"

StartupNext == Main \/ Startup_Event

StartupSpec == StartupInit /\ [][StartupNext]_vars

(***************************************************************************)
(* Clients connecting to /ws/{session_id} and their handlers ending.       *)
(***************************************************************************)
RegistryInit == ParserFresh /\ ProcessorFresh /\ BridgeIdle /\ AppServing /\ RegistryEmpty /\ LoopIdle /\ MultiIdle

RegistryNext ==
    \E c \in Conns :
        \/ \E sid \in SessionIds : WS_Accept(c, sid)
        \/ WS_Message(c)
        \/ WS_Disconnect(c)
        \/ WS_BadMessage(c)
        \/ WS_SendFailure(c)

RegistrySpec == RegistryInit /\ [][RegistryNext]_vars

(***************************************************************************)
(* Handlers and /api/sessions on the event loop, beside the worker thread  *)
(* of a chat request whose response has no line.                           *)
(***************************************************************************)
LoopInit ==
    /\ ParserFresh /\ ProcessorFresh
    /\ AppServing
    /\ RegistryEmpty /\ LoopIdle /\ MultiIdle
    /\ mode = "ws"
    /\ transport = "ok"
    /\ lines = <<>>
    /\ ws_open = TRUE
    /\ sent = <<Entry("ack", <<>>)>>
    /\ pc = "check"
    /\ psr_exit = "none"
    /\ joined = FALSE
    /\ complete_response = <<>>
    /\ chunk_queue = <<>>
    /\ content_parts = <<>>
    /\ ps_pc = "request"
    /\ ps_ctx = "worker"
    /\ idx = 1
    /\ ps_parts = <<>>
    /\ ps_meta = {}
    /\ rest_pc = "none"
    /\ rest_status = "none"
    /\ rest_message = <<>>

\* The steps of the worker thread.
LoopWorker == PS_Request \/ PS_Exhausted \/ PS_Finish \/ PS_Return

LoopNext ==
    \/ \E c \in Conns :
           \/ \E sid \in SessionIds : L_Accepted(c, sid)
           \/ L_Register(c)
           \/ L_Disconnected(c)
           \/ L_RemoveCheck(c)
           \/ L_RemoveDel(c)
    \/ L_SessionsKeys
    \/ L_SessionsCount
    \/ LoopWorker

LoopSpec == LoopInit /\ [][LoopNext]_vars

(***************************************************************************)
(* Several WebSocket chat requests at once: process_chat_message and       *)
(* process_streaming_response run once per request, each call with its own *)
(* locals; the agent answers every request with status 200.                *)
(***************************************************************************)
\* The content of the item lines the agent sends in answer to request r.
ReqContent(r) == <<ToString(r)>>

\* The lines the response to request r is drawn from.
ReqLines(r) == {ItemLine(ReqContent(r)), NonObjectLine}

\* One queue for all requests (a module-level chunk_queue).
QueueOfShared(r) == 1

\* chunk_queue = queue.Queue() is a local of the call: the queue of
\* request r is the one its own call created.
QueueOf(r) == r

\* Lines 93-97: the acknowledgment.
M_Ack(r) ==
    /\ requests[r].pc = "ack"
    /\ socket_log' = [socket_log EXCEPT ![r] = Deliver(@, Entry("ack", <<>>))]
    /\ requests' = [requests EXCEPT ![r].pc = "spawn"]
    /\ UNCHANGED <<queues, startup_vars, registry_vars, loop_vars,
                   bridge_vars, parser_vars>>

\* Lines 136-163: the queue and the list are created, the thread started.
M_Spawn(r) ==
    /\ requests[r].pc = "spawn"
    /\ queues' = [queues EXCEPT ![QueueOf(r)] = <<>>]
    /\ requests' = [requests EXCEPT ![r].pc = "loop",
                                    ![r].thread = "running",
                                    ![r].content_parts = <<>>]
    /\ UNCHANGED <<socket_log, startup_vars, registry_vars, loop_vars,
                   bridge_vars, parser_vars>>

\* The thread of request r consumes the next line of its response:
\* process_stream's loop body with on_chunk of this call.
M_Line(r) ==
    LET q == requests[r]
        line == q.lines[q.idx]
        yielded == LineTruthy(line) /\ JsonLoadsOk(line)
        content == GetContent(line)
        pushed == /\ yielded /\ IsDict(line) /\ GetType(line) = "item"
                  /\ Truthy(content)
    IN  /\ q.thread = "running"
        /\ q.idx <= Len(q.lines)
        /\ requests' = [requests EXCEPT
               ![r].idx = @ + 1,
               ![r].thread = IF yielded /\ ~IsDict(line) THEN "raised"
                             ELSE IF yielded /\ GetType(line) = "end"
                                  THEN "finish" ELSE @,
               ![r].ps_parts = IF pushed THEN Append(@, content) ELSE @,
               ![r].content_parts = IF pushed THEN Append(@, content) ELSE @]
        /\ queues' = IF pushed
                     THEN [queues EXCEPT ![QueueOf(r)] =
                              QueuePut(@, Entry("chunk", content))]
                     ELSE queues
        /\ UNCHANGED <<socket_log, startup_vars, registry_vars, loop_vars,
                       bridge_vars, parser_vars>>

\* The response of request r is exhausted.
M_Exhausted(r) ==
    /\ requests[r].thread = "running"
    /\ requests[r].idx > Len(requests[r].lines)
    /\ requests' = [requests EXCEPT ![r].thread = "finish"]
    /\ UNCHANGED <<queues, socket_log, startup_vars, registry_vars, loop_vars,
                   bridge_vars, parser_vars>>

\* process_stream assembles, calls on_complete of this call and returns.
M_Finish(r) ==
    /\ requests[r].thread = "finish"
    /\ queues' = [queues EXCEPT ![QueueOf(r)] =
                     QueuePut(@, Entry("complete", Join(requests[r].ps_parts)))]
    /\ requests' = [requests EXCEPT ![r].thread = "done"]
    /\ UNCHANGED <<socket_log, startup_vars, registry_vars, loop_vars,
                   bridge_vars, parser_vars>>

\* Lines 167-176 with an entry in the queue: a chunk is sent on the
\* WebSocket of this call, the complete entry ends the loop.
M_Get(r) ==
    LET mine == queues[QueueOf(r)]
    IN  /\ requests[r].pc = "loop"
        /\ mine # <<>>
        /\ queues' = [queues EXCEPT ![QueueOf(r)] = QueueRest(mine)]
        /\ IF QueueHead(mine).type = "chunk"
           THEN /\ socket_log' = [socket_log EXCEPT
                                     ![r] = Deliver(@, QueueHead(mine))]
                /\ UNCHANGED requests
           ELSE /\ requests' = [requests EXCEPT
                       ![r].complete_response = QueueHead(mine).content,
                       ![r].pc = "join"]
                /\ UNCHANGED socket_log
        /\ UNCHANGED <<startup_vars, registry_vars, loop_vars, bridge_vars,
                       parser_vars>>

\* Line 167 false: the thread has ended and the queue is empty.
M_LoopExit(r) ==
    /\ requests[r].pc = "loop"
    /\ requests[r].thread \in {"done", "raised"}
    /\ queues[QueueOf(r)] = <<>>
    /\ requests' = [requests EXCEPT ![r].pc = "join"]
    /\ UNCHANGED <<queues, socket_log, startup_vars, registry_vars, loop_vars,
                   bridge_vars, parser_vars>>

\* Lines 184-186: join, return.
M_Join(r) ==
    /\ requests[r].pc = "join"
    /\ requests[r].thread \in {"done", "raised"}
    /\ requests' = [requests EXCEPT ![r].pc = "final"]
    /\ UNCHANGED <<queues, socket_log, startup_vars, registry_vars, loop_vars,
                   bridge_vars, parser_vars>>

\* Lines 113-119: the complete envelope, under "if complete_response:".
M_Complete(r) ==
    /\ requests[r].pc = "final"
    /\ socket_log' =
           IF Truthy(requests[r].complete_response)
           THEN [socket_log EXCEPT ![r] =
                    Deliver(@, Entry("complete", requests[r].complete_response))]
           ELSE socket_log
    /\ requests' = [requests EXCEPT ![r].pc = "returned"]
    /\ UNCHANGED <<queues, startup_vars, registry_vars, loop_vars,
                   bridge_vars, parser_vars>>

\* Every connection has sent one chat message.
MultiInit ==
    /\ ParserFresh /\ ProcessorFresh
    /\ BridgeIdle
    /\ AppServing
    /\ RegistryEmpty /\ LoopIdle
    /\ \E ls \in [Conns -> SeqsUpTo(UNION {ReqLines(r) : r \in Conns},
                                      MaxReqLines)] :
           /\ \A r \in Conns :
                 \A i \in 1..Len(ls[r]) : ls[r][i] \in ReqLines(r)
           /\ requests = [r \in Conns |->
                             [NoRequest EXCEPT !.pc = "ack", !.lines = ls[r]]]
    /\ queues = [r \in Conns |-> <<>>]
    /\ socket_log = [r \in Conns |-> <<>>]

MultiNext ==
    \E r \in Conns :
        \/ M_Ack(r)
        \/ M_Spawn(r)
        \/ M_Line(r)
        \/ M_Exhausted(r)
        \/ M_Finish(r)
        \/ M_Get(r)
        \/ M_LoopExit(r)
        \/ M_Join(r)
        \/ M_Complete(r)

MultiSpec == MultiInit /\ [][MultiNext]_vars

(***************************************************************************)
(* websocket_endpoint's loop on one connection: a chat message is received *)
(* and process_chat_message awaited, then the next message is received.    *)
(***************************************************************************)
\* Most chat messages the connection receives.
MaxRequests == 2

\* The lines the response to the k-th request of the connection is drawn
\* from: its item content names the request.
SerialLines(k) ==
    {BlankLine, StartLine, NonObjectLine, EndLine, ItemLine(ReqContent(k))}

\* Lines 70-76, a turn of the loop after the first: process_chat_message
\* has returned, receive_text delivers the next message and
\* process_chat_message is called on it.  The call has its own locals and,
\* later, its own thread.
WS_Receive ==
    /\ mode = "ws"
    /\ pc = "returned"
    /\ ws_open
    /\ conn_handled[1] < MaxRequests
    /\ conn_handled' = [conn_handled EXCEPT ![1] = @ + 1]
    /\ pc' = "ack"
    /\ transport' \in {"ok", "status"}
    /\ lines' \in SeqsUpTo(SerialLines(conn_handled[1] + 1), MaxReqLines)
    /\ (transport' # "ok" => lines' = <<>>)
    /\ psr_exit' = "none"
    /\ joined' = FALSE
    /\ ps_pc' = "idle"
    /\ ps_ctx' = "none"
    /\ idx' = 1
    /\ ps_parts' = <<>>
    /\ ps_meta' = {}
    /\ UNCHANGED <<active_connections, conn_state, conn_sid, startup_vars,
                   loop_vars, multi_vars, parser_vars, mode, ws_open, sent,
                   psr_locals, rest_vars>>

\* The connection is registered and its first message has been received.
SerialInit ==
    /\ ParserFresh /\ ProcessorFresh
    /\ AppServing
    /\ LoopIdle /\ MultiIdle
    /\ active_connections = Register([sid \in SessionIds |-> NoConn], "s1", 1)
    /\ conn_state = [c \in Conns |-> IF c = 1 THEN "live" ELSE "new"]
    /\ conn_sid = [c \in Conns |-> IF c = 1 THEN "s1" ELSE ""]
    /\ conn_handled = [c \in Conns |-> IF c = 1 THEN 1 ELSE 0]
    /\ mode = "ws"
    /\ transport \in {"ok", "status"}
    /\ lines \in SeqsUpTo(SerialLines(1), MaxReqLines)
    /\ (transport # "ok" => lines = <<>>)
    /\ ws_open = TRUE
    /\ sent = <<>>
    /\ pc = "ack"
    /\ psr_exit = "none"
    /\ joined = FALSE
    /\ complete_response = <<>>
    /\ chunk_queue = <<>>
    /\ content_parts = <<>>
    /\ ps_pc = "idle"
    /\ ps_ctx = "none"
    /\ idx = 1
    /\ ps_parts = <<>>
    /\ ps_meta = {}
    /\ rest_pc = "none"
    /\ rest_status = "none"
    /\ rest_message = <<>>

SerialNext ==
    \/ PS_Request
    \/ PS_Exhausted
    \/ PS_SkipLine
    \/ PS_Raise
    \/ PS_Item
    \/ PS_StartOrOther
    \/ PS_End
    \/ PS_Finish
    \/ PS_Return
    \/ PCM_Ack
    \/ PSR_Spawn
    \/ PSR_Check
    \/ PSR_GetEmpty
    \/ PSR_GetChunk
    \/ PSR_GetComplete
    \/ PSR_Join
    \/ PCM_Complete
    \/ PCM_Except
    \/ Disconnect
    \/ WS_Receive

SerialSpec == SerialInit /\ [][SerialNext]_vars

(***************************************************************************)
(* The two assemblers on the same response: POST /api/chat runs            *)
(* process_stream over the lines, and parse_stream passes the same lines   *)
(* to a fresh parser.                                                      *)
(***************************************************************************)
\* The lines this specification draws the response from.
PairLines ==
    {BlankLine, GarbageLine, NonObjectLine, StartLine, EndLine, OtherLine,
     UntypedLine, ItemLine(<<"a">>), NullMetaItemLine}

\* N8nStreamParser.parse_stream: the next line goes to parse_line; an
\* exception of parse_line ends the generator.
P_FeedLine ==
    /\ Len(fed) < Len(lines)
    /\ ret.kind # "raised"
    /\ ParseLine(lines[Len(fed) + 1])

PairInit ==
    /\ ParserFresh /\ ProcessorFresh
    /\ AppServing
    /\ RegistryEmpty /\ LoopIdle /\ MultiIdle
    /\ mode = "rest"
    /\ transport \in {"ok", "status", "timeout", "connerr"}
    /\ lines \in SeqsUpTo(PairLines, MaxLines)
    /\ (transport # "ok" => lines = <<>>)
    /\ ws_open = FALSE
    /\ sent = <<>>
    /\ pc = "none"
    /\ psr_exit = "none"
    /\ joined = FALSE
    /\ complete_response = <<>>
    /\ chunk_queue = <<>>
    /\ content_parts = <<>>
    /\ ps_pc = "idle"
    /\ ps_ctx = "none"
    /\ idx = 1
    /\ ps_parts = <<>>
    /\ ps_meta = {}
    /\ rest_pc = "call"
    /\ rest_status = "none"
    /\ rest_message = <<>>

PairNext ==
    \/ Rest_Call
    \/ PS_Request
    \/ PS_Exhausted
    \/ PS_SkipLine
    \/ PS_Raise
    \/ PS_Item
    \/ PS_StartOrOther
    \/ PS_End
    \/ PS_Finish
    \/ PS_Return
    \/ Rest_Return
    \/ P_FeedLine

PairSpec == PairInit /\ [][PairNext]_vars

(***************************************************************************)
(* Properties of the bridge.                                               *)
(***************************************************************************)
\* The envelopes of a log that have one of the given types.
OfTypes(log, types) == SelectSeq(log, LAMBDA e : e.type \in types)

NumOfTypes(log, types) == Len(OfTypes(log, types))

\* The contents of the chunk envelopes of a log, in order.
ChunkContents(log) ==
    [i \in 1..NumOfTypes(log, {"chunk"}) |-> OfTypes(log, {"chunk"})[i].content]

IsPrefix(s, t) == Len(s) <= Len(t) /\ \A i \in 1..Len(s) : s[i] = t[i]

\* What a line is, read off the line itself.
IsItemLine(l) == l.body = "object" /\ l.has_type /\ l.type = "item"
IsEndLine(l) == l.body = "object" /\ l.has_type /\ l.type = "end"
IsNonObject(l) == l.body = "nonobj"

\* The contents of all item lines of a response, in order.
RECURSIVE ItemContents(_)
ItemContents(ls) ==
    IF ls = <<>> THEN <<>>
    ELSE IF IsItemLine(Head(ls))
         THEN <<Head(ls).content>> \o ItemContents(Tail(ls))
         ELSE ItemContents(Tail(ls))

\* The non-empty contents of the item lines that come before the first
\* 'end' line and before the first line that is JSON but not an object.
RECURSIVE ReadItemContents(_)
ReadItemContents(ls) ==
    IF ls = <<>> \/ IsEndLine(Head(ls)) \/ IsNonObject(Head(ls)) THEN <<>>
    ELSE IF IsItemLine(Head(ls)) /\ Head(ls).content # <<>>
         THEN <<Head(ls).content>> \o ReadItemContents(Tail(ls))
         ELSE ReadItemContents(Tail(ls))

\* C1: a call of process_chat_message that returns while the WebSocket is
\* open has sent the client exactly one terminal envelope, 'complete' or
\* 'error', whatever the agent stream did.
C1_ExactlyOneTerminal ==
    (mode = "ws" /\ pc = "returned" /\ ws_open)
        => NumOfTypes(sent, {"complete", "error"}) = 1

\* C2: when the outbound call fails before any line is produced, the client
\* is sent exactly one 'error' envelope and no 'chunk' envelope.
C2_TransportFailureSendsError ==
    (mode = "ws" /\ pc = "returned" /\ ws_open /\ transport # "ok")
        => /\ NumOfTypes(sent, {"error"}) = 1
           /\ NumOfTypes(sent, {"chunk"}) = 0

C4_ExhaustionIsCompletion ==
    (/\ mode = "ws" /\ pc = "returned" /\ ws_open
     /\ transport = "ok" /\ ps_pc = "done" /\ idx > Len(lines)
     /\ \A i \in 1..Len(lines) : ~IsEndLine(lines[i]))
        => /\ joined /\ ~ThreadAlive /\ chunk_queue = <<>>
           /\ ChunkContents(sent) = ReadItemContents(lines)
           /\ OfTypes(sent, {"complete", "error"})
                  = <<Entry("complete", Join(ReadItemContents(lines)))>>

\* C5: the ack envelope is the first envelope, it is sent before the worker
\* thread is started, and no chunk envelope follows a terminal envelope.
C5_AckFirstTerminalLast ==
    /\ (ps_ctx = "worker" => sent # <<>>)
    /\ (sent # <<>> => sent[1].type = "ack")
    /\ \A i \in 2..Len(sent) : sent[i].type # "ack"
    /\ \A i \in 1..Len(sent) : \A j \in (i + 1)..Len(sent) :
           sent[i].type \in {"complete", "error"} => sent[j].type # "chunk"

\* C5's case: a request that sent ack, a chunk and then complete.
C5_Witness ==
    /\ pc = "returned"
    /\ Len(sent) >= 3
    /\ sent[1].type = "ack"
    /\ sent[2].type = "chunk"
    /\ sent[Len(sent)].type = "complete"

\* C6: whenever control has left process_streaming_response, by return or
\* by exception, the worker thread has been joined.
C6_WorkerJoinedOnExit ==
    psr_exit # "none" => (joined /\ ~ThreadAlive)

\* C7: the channel has a fixed capacity, and whatever it holds is within
\* that capacity (the producer waits instead of exceeding it).
C7_ChannelBounded ==
    chunk_queue # <<>>
        => (QueueMaxsize > 0 /\ Len(chunk_queue) <= QueueMaxsize)

\* C8: the blocking network read never runs on the event loop.
C8_BlockingReadOffLoop ==
    BlockingReadCtx # "loop"

\* C9: chat_endpoint returns status 'error' when the outbound call failed.
C9_RestFailureIsError ==
    (rest_pc = "returned" /\ transport # "ok") => rest_status = "error"

(***************************************************************************)
(* Properties of the parser.                                               *)
(***************************************************************************)
\* A valid item line: a JSON object with type 'item' and a content.
IsValidItem(l) == IsItemLine(l) /\ l.has_content

\* c1 + ... + cN for the lines fed.
RECURSIVE ConcatContents(_)
ConcatContents(ls) ==
    IF ls = <<>> THEN <<>> ELSE Head(ls).content \o ConcatContents(Tail(ls))

EndsWith(s, c) ==
    Len(c) <= Len(s) /\ SubSeq(s, Len(s) - Len(c) + 1, Len(s)) = c

IsMalformedLine(l) == l.body = "garbage"

\* A line that is a JSON object.
IsObjectLine(l) == l.body = "object"

\* The type an object line announces ('unknown' when it has none).
AnnouncedType(l) == IF l.has_type THEN l.type ELSE "unknown"

Last(seq) == seq[Len(seq)]

\* C11: a parse_line call on a line that is not valid JSON leaves the chunk
\* list and the assembled content as they were and returns None without
\* raising; and an object line fed later, after any number of such lines,
\* is parsed normally (returned, and appended as the newest chunk).
C11_MalformedLineSkipped ==
    /\ [][(fed' # fed /\ IsMalformedLine(Last(fed')))
             => /\ chunks' = chunks
                /\ GetCompleteContent(chunks') = GetCompleteContent(chunks)
                /\ ret'.kind = "none"]_vars
    /\ []((/\ fed # <<>>
           /\ IsObjectLine(Last(fed))
           /\ \E i \in 1..Len(fed) : IsMalformedLine(fed[i]))
             => /\ ret.kind = "chunk"
                /\ ret.chunk.type = AnnouncedType(Last(fed))
                /\ chunks # <<>>
                /\ Last(chunks) = ret.chunk)

\* C11's case: a malformed line was fed between two item lines, and both
\* items are in the assembled content.
C11_Witness ==
    /\ Len(fed) = 3
    /\ IsItemLine(fed[1]) /\ IsMalformedLine(fed[2]) /\ IsItemLine(fed[3])
    /\ fed[1].content = <<"a">> /\ fed[3].content = <<"b">>
    /\ ret.kind = "chunk"
    /\ GetCompleteContent(chunks) = <<"a", "b">>

\* C12: total_chunks is the number of lines fed so far that were parsed
\* into an event, that is, of the JSON object lines; malformed lines and
\* lines that are empty once trimmed are not counted.
C12_TotalChunksCountsParsedLines ==
    GetStreamStats(chunks).total_chunks
        = Len(SelectSeq(fed, IsObjectLine))

\* C12's case: an empty line, a white-space line or a malformed line was
\* fed beside object lines.
C12_Witness ==
    /\ Len(fed) = 3
    /\ \E i \in 1..3 : fed[i].body = "empty"
    /\ \E i \in 1..3 : IsMalformedLine(fed[i])
    /\ GetStreamStats(chunks).total_chunks = 1

\* C13: a call of a read operation leaves the chunk list as it was, and a
\* call that repeats the previous read call, with no parse_line call in
\* between, returns what the previous call returned.
C13_ReadsPureAndRepeatable ==
    [][(last_read' # last_read /\ last_read'.op # "none")
          => /\ chunks' = chunks
             /\ (last_read.op = last_read'.op /\ last_read.arg = last_read'.arg)
                    => last_read'.result = last_read.result]_vars

\* C13's case: a read operation was called on a parser that holds chunks,
\* and returned some of them.
C13_Witness ==
    /\ Len(chunks) = 3
    /\ last_read.op = "filter_by_node"
    /\ last_read.arg = "n1"
    /\ Len(last_read.result) = 2

\* The text the five item contents of the sample stream make up.
SampleText ==
    <<"an", "nyeong", "ha", "se", "yo", "!", " ",
      "eop", "mu", "reul", " ", "do", "wa", "deu",
      "ril", " ", "su", " ", "iss", "seup", "ni", "da", ".">>

\* C14: once the seven lines of the sample stream have been fed to a fresh
\* parser, get_complete_content() is the concatenation of the five item
\* contents (the sample text), content_chunks is 5, total_chunks is 7, and
\* has_start and has_end are both true.
C14_SampleStream ==
    fed = SampleStream
        => /\ GetCompleteContent(chunks) = SampleText
           /\ GetCompleteContent(chunks)
                 = SampleStream[2].content \o SampleStream[3].content
                   \o SampleStream[4].content \o SampleStream[5].content
                   \o SampleStream[6].content
           /\ GetStreamStats(chunks).content_chunks = 5
           /\ GetStreamStats(chunks).total_chunks = 7
           /\ GetStreamStats(chunks).has_start
           /\ GetStreamStats(chunks).has_end

\* C14's case: the whole sample was fed and get_stream_stats was called.
C14_Witness ==
    /\ fed = SampleStream
    /\ last_read.op = "get_stream_stats"
    /\ last_read.result.total_chunks = 7
    /\ last_read.result.content_chunks = 5

\* C15: the chunk list of a parser holds at most one 'start' chunk and at
\* most one 'end' chunk, and an 'end' chunk is the last of the list: a
\* second start, and any event after end, is not recorded.
C15_OneStartEndTerminal ==
    /\ Len(ChunksOfType(chunks, "start")) <= 1
    /\ Len(ChunksOfType(chunks, "end")) <= 1
    /\ \A i \in 1..Len(chunks) : chunks[i].type = "end" => i = Len(chunks)

\* A JSON object line whose type is missing or is none of start, item, end.
IsUnknownTypeLine(l) ==
    IsObjectLine(l) /\ AnnouncedType(l) \notin {"start", "item", "end"}

C17_EveryEventPushed ==
    [][(ps_ctx = "worker" /\ idx' # idx)
          => /\ (IsObjectLine(lines[idx]) /\ ~IsEndLine(lines[idx]))
                   => Len(chunk_queue') = Len(chunk_queue) + 1
             /\ IsMalformedLine(lines[idx])
                   => chunk_queue' = chunk_queue]_vars

\* The contents of the item lines that come before the first 'end' line.
RECURSIVE ItemContentsBeforeEnd(_)
ItemContentsBeforeEnd(ls) ==
    IF ls = <<>> \/ IsEndLine(Head(ls)) THEN <<>>
    ELSE IF IsItemLine(Head(ls))
         THEN <<GetContent(Head(ls))>> \o ItemContentsBeforeEnd(Tail(ls))
         ELSE ItemContentsBeforeEnd(Tail(ls))

\* C18: when chat_endpoint has returned (a request with no registered
\* client channel), no envelope was sent to any client and the returned
\* message is the concatenation, in arrival order, of the contents of the
\* stream's item lines (those before its 'end').
C18_RestAssemblesWithoutForwarding ==
    (mode = "rest" /\ rest_pc = "returned")
        => /\ sent = <<>>
           /\ rest_message = Join(ItemContentsBeforeEnd(lines))

\* The URL, the username or the password is missing (unset or empty under
\* both of its names).
ConfigMissing ==
    \/ \A n \in {"WEBHOOK_URL", "N8N_WEBHOOK_URL"} : environ[n] # "set"
    \/ \A n \in {"WEBHOOK_USERNAME", "N8N_USERNAME"} : environ[n] # "set"
    \/ \A n \in {"WEBHOOK_PASSWORD", "N8N_PASSWORD"} : environ[n] # "set"

\* C19: when the webhook URL, the username or the password is missing, no
\* StreamingWebhookHandler exists and the process does not serve, in any
\* state; and every step of the start ends it with a configuration error
\* (run_chatbot exits, or the application's startup fails).
C19_MissingConfigRefusesStart ==
    /\ [](ConfigMissing
             => /\ webhook_handler = "None"
                /\ boot_pc \in {"main", "uvicorn", "exited", "failed"})
    /\ [][(ConfigMissing /\ boot_pc' # boot_pc)
             => boot_pc' \in {"exited", "failed"}]_vars

\* C19's case: only the password is missing, the application was started
\* by uvicorn directly and its startup has failed.
C19_Witness ==
    /\ environ["WEBHOOK_URL"] = "set"
    /\ environ["N8N_USERNAME"] = "set"
    /\ environ["WEBHOOK_PASSWORD"] = "unset"
    /\ environ["N8N_PASSWORD"] = "empty"
    /\ boot_pc = "failed"
    /\ webhook_handler = "None"

\* C20: once the websocket_endpoint call of a connection has finished, by
\* a client disconnect, an undecodable message or a failed send, the
\* registry no longer holds that connection under its session id.
C20_EndedConnectionUnregistered ==
    \A c \in Conns :
        conn_state[c] \in {"closed", "crashed"}
            => ~(/\ conn_sid[c] \in GetActiveSessions
                 /\ active_connections[conn_sid[c]] = c)

\* What the caller of process_stream gets from a call that has ended:
\* whether it raised, the text it returned, the metadata keys it saw.
CallerOutcome ==
    [raised |-> ps_pc = "raised", returned |-> PS_Result, meta |-> ps_meta]

\* The outcome of a call whose response had status 200 and no line.
EmptyStreamOutcome == [raised |-> FALSE, returned |-> <<>>, meta |-> {}]

\* C21: a response status other than 200 reaches the caller of the stream
\* source as an outcome of its own: when process_stream has ended after
\* such a status, what its caller holds differs from what it holds after a
\* successful stream without lines (and so can differ from what a timeout
\* or a connection failure leaves, which is that same empty outcome).
C21_StatusSurfacedDistinctly ==
    (ps_pc \in {"done", "raised"} /\ transport = "status")
        => CallerOutcome # EmptyStreamOutcome

\* C22: a line that is not valid JSON, or is JSON but not an object, never
\* aborts process_stream: a call on a response with status 200 ends by
\* returning, its returned content is the concatenation of the contents of
\* all item lines before 'end', and with callbacks given those contents
\* were all passed to on_chunk.
C22_BadLineNeverAborts ==
    (ps_pc \in {"done", "raised"} /\ transport = "ok")
        => /\ ps_pc = "done"
           /\ PS_Result = Join(ItemContentsBeforeEnd(lines))
           /\ HasCallbacks
                 => Join(content_parts) = Join(ItemContentsBeforeEnd(lines))

\* The index of the first 'end' line of a response, or its length when it
\* has none.
FirstEnd(ls) ==
    IF \E i \in 1..Len(ls) : IsEndLine(ls[i])
    THEN CHOOSE i \in 1..Len(ls) :
             IsEndLine(ls[i]) /\ \A j \in 1..(i - 1) : ~IsEndLine(ls[j])
    ELSE Len(ls)

\* C23: process_stream pulls no line after the first 'end' line; the
\* contents passed to on_chunk are at every moment contents of item lines
\* before that 'end', in order; and the content a call returns is the
\* concatenation of the contents of the item lines before that 'end'.
C23_StopsAtFirstEnd ==
    /\ idx <= FirstEnd(lines) + 1
    /\ IsPrefix(content_parts, ReadItemContents(lines))
    /\ ps_pc = "done" => PS_Result = Join(ItemContentsBeforeEnd(lines))

\* C23's case: an item, 'end', and an item after it; the worker's call has
\* returned the first item's content and never pulled the third line.
C23_Witness ==
    /\ Len(lines) = 3
    /\ IsItemLine(lines[1]) /\ lines[1].content = <<"a">>
    /\ IsEndLine(lines[2])
    /\ IsItemLine(lines[3]) /\ lines[3].content = <<"b">>
    /\ ps_ctx = "worker"
    /\ ps_pc = "done"
    /\ idx = 3
    /\ PS_Result = <<"a">>
    /\ content_parts = <<<<"a">>>>

\* C24: every call of process_streaming_response ends, by returning or by
\* raising, whatever the source does.
C24_BridgeTerminates ==
    (pc = "check") ~> (psr_exit # "none")

\* C25: a register or remove step of a handler is atomic with respect to
\* every other access to the registry.  While a handler is inside such a
\* step the event loop runs that handler and no other coroutine is inside
\* a step or inside the listing; the registry changes only in a step of
\* the handler that holds the loop; the listing's count is the size of the
\* key list it read; and no step of a worker thread changes the registry.
C25_RegistryStepsAtomic ==
    /\ [](\A c \in Conns :
             conn_state[c] \in MidStep
                => /\ loop_owner = c
                   /\ sessions_pc = "idle"
                   /\ \A d \in Conns \ {c} : conn_state[d] \notin MidStep)
    /\ [](sessions_pc = "count" => loop_owner = SessionsTask)
    /\ [][active_connections' # active_connections
             => /\ loop_owner \in Conns
                /\ conn_state[loop_owner] \in MidStep]_vars
    /\ [](sessions_pc = "idle" => listed.count = Cardinality(listed.keys))
    /\ [][(ps_pc' # ps_pc \/ chunk_queue' # chunk_queue)
             => active_connections' = active_connections]_vars

\* C25's case: one handler is between its membership test and its del
\* while the other connection is live under the same session id and the
\* worker thread is running.
C25_Witness ==
    /\ conn_state[1] = "removing_del"
    /\ conn_state[2] = "live"
    /\ conn_sid[1] = conn_sid[2]
    /\ ps_pc = "lines"

\* The characters of the texts of a list of envelopes or contents.
CharsOf(texts) ==
    UNION {{texts[i][j] : j \in 1..Len(texts[i])} : i \in 1..Len(texts)}

\* The contents of the envelopes of a log.
EnvelopeContents(log) == [i \in 1..Len(log) |-> log[i].content]

\* C26: with a chat request in flight on every connection, the chunks sent
\* on a connection's WebSocket are, in order, contents of the item lines
\* of that connection's own response; a 'complete' envelope on it carries
\* the concatenation of such contents; the request's content list holds
\* only such contents; and no character of another request's response
\* occurs in anything sent on the connection or assembled for it.
C26_RequestsIsolated ==
    \A r \in Conns :
        /\ IsPrefix(ChunkContents(socket_log[r]),
                    ReadItemContents(requests[r].lines))
        /\ IsPrefix(requests[r].content_parts,
                    ReadItemContents(requests[r].lines))
        /\ \A i \in 1..Len(socket_log[r]) :
              socket_log[r][i].type = "complete"
                 => socket_log[r][i].content
                       = Join(ReadItemContents(requests[r].lines))
        /\ \A q \in Conns \ {r} :
              /\ CharsOf(EnvelopeContents(socket_log[r]))
                    \cap CharsOf(<<ReqContent(q)>>) = {}
              /\ CharsOf(<<requests[r].complete_response>>)
                    \cap CharsOf(<<ReqContent(q)>>) = {}

\* C26's case: two requests are in flight, each with a chunk waiting in
\* its queue while its thread is still running.
C26_Witness ==
    /\ requests[1].pc = "loop" /\ requests[2].pc = "loop"
    /\ requests[1].thread = "running" /\ requests[2].thread = "running"
    /\ queues[QueueOf(1)] = <<Entry("chunk", ReqContent(1))>>
    /\ queues[QueueOf(2)] = <<Entry("chunk", ReqContent(2))>>


\* C27: a chunk's timestamp is set exactly when its metadata.timestamp is
\* present and numeric, the number 0 included; it is unset when the timestamp
\* is absent or not a number, and constructing the chunk never raises.
C27_TimestampSetIffNumeric ==
    /\ ret.kind # "raised"
    /\ \A i \in 1..Len(chunks) :
          /\ chunks[i].timestamp.set <=> chunks[i].metadata.ts_kind = "number"
          /\ chunks[i].timestamp.set =>
                chunks[i].timestamp.ms = chunks[i].metadata.ts


\* The contents of the item events of a chunk list, concatenated.
RECURSIVE ItemEventContents(_)
ItemEventContents(list) ==
    IF list = <<>> THEN <<>>
    ELSE (IF Head(list).type = "item" THEN Head(list).content ELSE <<>>)
             \o ItemEventContents(Tail(list))

\* C28: filter_by_type(t) returns, in arrival order, exactly the chunks of
\* type t; filter_by_node(n) returns, in arrival order, exactly the chunks
\* whose metadata has a nodeId equal to n, so never a chunk without a nodeId;
\* get_content_by_node(n) is the concatenation of the contents of the item
\* events that filter_by_node(n) returns.
C28_FiltersAreExactSubsequences ==
    /\ last_read.op = "filter_by_type" =>
          last_read.result =
              SelectSeq(chunks, LAMBDA c : c.type = last_read.arg)
    /\ last_read.op = "filter_by_node" =>
          /\ last_read.result =
                SelectSeq(chunks, LAMBDA c : /\ c.metadata.has_node
                                            /\ c.metadata.nodeId = last_read.arg)
          /\ \A i \in 1..Len(last_read.result) :
                last_read.result[i].metadata.has_node
    /\ last_read.op = "get_content_by_node" =>
          last_read.result =
              ItemEventContents(FilterByNode(chunks, last_read.arg))


\* C29: once add_callback(cb) has been called cb is registered, and a
\* process_realtime call on an item event with non-empty content calls every
\* registered callback once, in order, with the event and the content
\* accumulated so far, and accumulates the content whether or not a callback
\* raises.
C29_AddCallbackRegisters ==
    /\ proc_ret.op = "add_callback" =>
          /\ proc_ret.kind = "returned"
          /\ \E i \in 1..Len(processing_callbacks) :
                processing_callbacks[i] = proc_ret.callback
    /\ (/\ proc_ret.op = "process_realtime"
        /\ proc_ret.chunk.type = "item"
        /\ Truthy(proc_ret.chunk.content)) =>
          /\ proc_ret.kind = "returned"
          /\ EndsWith(processed_content, proc_ret.chunk.content)
          /\ Len(proc_ret.calls) = Len(processing_callbacks)
          /\ \A i \in 1..Len(proc_ret.calls) :
                /\ proc_ret.calls[i].callback = processing_callbacks[i]
                /\ proc_ret.calls[i].content = processed_content


\* C30: the message of a 'complete' envelope of a WebSocket chat request is
\* the concatenation, in send order, of the contents of all the 'chunk'
\* envelopes sent to the client for that request.
C30_CompleteIsChunksConcatenated ==
    \A i \in 1..Len(sent) :
        (mode = "ws" /\ sent[i].type = "complete")
            => sent[i].content = Join(ChunkContents(sent))

\* C30's case: a request that sent two different chunks and then a complete
\* envelope.
C30_Witness ==
    /\ mode = "ws"
    /\ pc = "returned"
    /\ ChunkContents(sent) = << <<"a">>, <<"b">> >>
    /\ sent[Len(sent)] = Entry("complete", <<"a", "b">>)


\* C31: in a call of process_stream with callbacks, on_chunk is invoked once
\* for each item with non-empty content the call reads, in arrival order, each
\* invocation queueing one 'chunk' entry; on_complete is invoked exactly once,
\* when the loop has ended and so after the last on_chunk, with the content
\* the call returns; nothing is queued after it, so the 'complete' entry is
\* the last entry put on the request's queue.
C31_CompleteOnceAfterChunks ==
    /\ []((HasCallbacks /\ ps_pc = "done")
            => /\ content_parts = ReadItemContents(lines)
               /\ Join(content_parts) = PS_Result)
    /\ [](\A i \in 1..Len(chunk_queue) :
              chunk_queue[i].type = "complete" => i = Len(chunk_queue))
    /\ [][/\ (HasCallbacks /\ Len(content_parts') > Len(content_parts))
               => /\ ps_pc = "lines" /\ ps_pc' = "lines"
                  /\ content_parts' = Append(content_parts, GetContent(lines[idx]))
                  /\ chunk_queue' = Append(chunk_queue,
                                           Entry("chunk", GetContent(lines[idx])))
          /\ (HasCallbacks /\ ps_pc = "finish" /\ ps_pc' = "returning")
               => chunk_queue' = Append(chunk_queue, Entry("complete", PS_Result'))
          /\ (NumOfTypes(chunk_queue', {"complete"})
                  > NumOfTypes(chunk_queue, {"complete"}))
               => (ps_pc = "finish" /\ ps_pc' = "returning")
          /\ (HasCallbacks /\ ps_pc \in {"returning", "done"})
               => /\ ps_pc' \in {"returning", "done"}
                  /\ content_parts' = content_parts
                  /\ Len(chunk_queue') <= Len(chunk_queue)]_vars

\* C31's case: the worker has read two items and ended, and the consumer has
\* not taken anything yet: the queue holds the two chunks, then 'complete'.
C31_Witness ==
    /\ HasCallbacks
    /\ ps_pc = "done"
    /\ chunk_queue = <<Entry("chunk", <<"a">>), Entry("chunk", <<"b">>),
                       Entry("complete", <<"a", "b">>)>>


\* C32: while a connection is live, active_connections maps its session id
\* to a live connection; in particular, when two clients connected with the
\* same session id and one of them disconnects, the id stays registered as
\* long as the other is open.
C32_LiveSessionStaysRegistered ==
    \A c \in Conns :
        conn_state[c] = "live"
            => /\ conn_sid[c] \in GetActiveSessions
               /\ conn_state[active_connections[conn_sid[c]]] = "live"


\* A response made of JSON object lines, malformed lines and blank lines in
\* which no event (object line) follows an 'end' line.
NoEventAfterEnd(ls) ==
    /\ \A i \in 1..Len(ls) : ~IsNonObject(ls[i])
    /\ \A i \in 1..Len(ls) : \A j \in (i + 1)..Len(ls) :
          IsEndLine(ls[i]) => ~IsObjectLine(ls[j])

\* C33: on such a response the two assemblers agree: once process_stream has
\* ended and a fresh parser has been passed the same lines, process_stream
\* has returned the text get_complete_content() gives.
C33_AssemblersAgree ==
    (/\ NoEventAfterEnd(lines)
     /\ transport = "ok"
     /\ ps_pc \in {"done", "raised"}
     /\ (fed = lines \/ ret.kind = "raised"))
        => /\ ps_pc = "done"
           /\ PS_Result = GetCompleteContent(chunks)


\* The number of the request an envelope of the connection's log was sent
\* after: the acks up to its position.
AcksUpTo(log, i) == NumOfTypes(SubSeq(log, 1, i), {"ack"})

\* C34: the chat requests of one connection are processed one after
\* another.  When the next message is received, the call for the previous one
\* has returned, its thread has ended and been joined and its queue is
\* empty; the ack of a request is sent after its message was received; and
\* every chunk or complete envelope that follows the ack of request k in the
\* log carries content of request k's response only.
C34_RequestsProcessedSerially ==
    /\ [][conn_handled' # conn_handled
             => /\ pc = "returned"
                /\ ~ThreadAlive
                /\ ps_pc \in {"done", "raised"}
                /\ joined
                /\ chunk_queue = <<>>]_vars
    /\ [](NumOfTypes(sent, {"ack"}) <= conn_handled[1])
    /\ [](\A i \in 1..Len(sent) :
              sent[i].type \in {"chunk", "complete"}
                 => CharsOf(<<sent[i].content>>)
                        \subseteq CharsOf(<<ReqContent(AcksUpTo(sent, i))>>))

\* C34's case: two requests on the connection, each answered with a chunk
\* and a complete envelope.
C34_Witness ==
    /\ conn_handled[1] = 2
    /\ pc = "returned"
    /\ sent = <<Entry("ack", <<>>), Entry("chunk", ReqContent(1)),
                Entry("complete", ReqContent(1)),
                Entry("ack", <<>>), Entry("chunk", ReqContent(2)),
                Entry("complete", ReqContent(2))>>

=============================================================================
